---- MODULE Spec2Model ----
(***************************************************************************)
(* The tree construction engine of Hubbub (src/treebuilder/treebuilder.c): *)
(* the stack of open elements, the list of active formatting elements, the *)
(* helpers that call the tree handler (the sink), the token dispatcher and *)
(* teardown.  Each C function is an operator on a record m holding the     *)
(* treebuilder's fields and the sink's state; each action applies one      *)
(* function to the current state.                                          *)
(***************************************************************************)
EXTENDS Integers, Sequences, FiniteSets, Bags, TLC

(* ------------------------------ bounds -------------------------------- *)

\* Frames added per growth of the stack (the library's value is larger).
ELEMENT_STACK_CHUNK == 2
\* Nodes the sink hands out before the model stops creating.
MaxNodes == 4
\* Entries the allocator can hold for the formatting list.
MaxEntries == 2
\* The same where the list is alone.
MaxListEntries == 3
\* Sink calls and allocations that may fail within one operation.
MaxFaults == 1
\* Frames above frame 0 before the model stops pushing, where the list of
\* active formatting elements is in play.
MaxDepth == 2
\* The same where the stack is alone.
MaxStackDepth == 3
\* Handler calls recorded for one token before the model stops dispatching.
MaxDispatch == 3
\* The longest input buffer.
MaxLen == 2
\* The places the tokeniser's buffer moves between.
MaxBuffers == 2
\* The nodes of a document tree.
MaxTreeNodes == 2
\* The bytes of the input buffer.
MaxBytes == 3
\* The attributes of a tag.
MaxAttrs == 2

(* ----------------------------- constants ------------------------------ *)

NULL == 0
\* What an uninitialised pointer may hold besides NULL or a live handle.
Wild == 0 - 1
\* The document node handle the client passes to setopt (test/tree2.c).
DocumentNode == 1
\* The address of the treebuilder, as its callers hold it.
Self == 1
\* The client's callback function and the pw it registers it with.
ClientFn == 1
ClientPw == 2
\* hubbub_ns values used by the tags of the model.
HUBBUB_NS_NULL == 0
HUBBUB_NS_HTML == 1
HUBBUB_NS_MATHML == 2
HUBBUB_NS_SVG == 3

(* element_type: the ordinals follow the order of name_type_map, whose order is
   the order of the enumeration (special, scoping, formatting, phrasing). *)
ADDRESS == 0
AREA == 1
BASE == 2
BASEFONT == 3
BGSOUND == 4
BLOCKQUOTE == 5
BODY == 6
BR == 7
CENTER == 8
COL == 9
COLGROUP == 10
DD == 11
DIR == 12
DIV == 13
DL == 14
DT == 15
EMBED == 16
FIELDSET == 17
FORM == 18
FRAME == 19
FRAMESET == 20
H1 == 21
H2 == 22
H3 == 23
H4 == 24
H5 == 25
H6 == 26
HEAD == 27
HR == 28
IFRAME == 29
IMAGE == 30
IMG == 31
INPUT == 32
ISINDEX == 33
LI == 34
LINK == 35
LISTING == 36
MENU == 37
META == 38
NOEMBED == 39
NOFRAMES == 40
NOSCRIPT == 41
OL == 42
OPTGROUP == 43
OPTION == 44
P == 45
PARAM == 46
PLAINTEXT == 47
PRE == 48
SCRIPT == 49
SELECT == 50
SPACER == 51
STYLE == 52
TBODY == 53
TEXTAREA == 54
TFOOT == 55
THEAD == 56
TITLE == 57
TR == 58
UL == 59
WBR == 60
APPLET == 61
BUTTON == 62
CAPTION == 63
HTML == 64
MARQUEE == 65
OBJECT == 66
TABLE == 67
TD == 68
TH == 69
A == 70
B == 71
BIG == 72
EM == 73
FONT == 74
I == 75
NOBR == 76
S == 77
SMALL == 78
STRIKE == 79
STRONG == 80
TT == 81
U == 82

(* name_type_map: each entry is the name's bytes (ASCII) and its type. *)
name_type_map ==
  <<
    [name |-> <<65, 68, 68, 82, 69, 83, 83>>, type |-> ADDRESS],
    [name |-> <<65, 82, 69, 65>>, type |-> AREA],
    [name |-> <<66, 65, 83, 69>>, type |-> BASE],
    [name |-> <<66, 65, 83, 69, 70, 79, 78, 84>>, type |-> BASEFONT],
    [name |-> <<66, 71, 83, 79, 85, 78, 68>>, type |-> BGSOUND],
    [name |-> <<66, 76, 79, 67, 75, 81, 85, 79, 84, 69>>, type |-> BLOCKQUOTE],
    [name |-> <<66, 79, 68, 89>>, type |-> BODY],
    [name |-> <<66, 82>>, type |-> BR],
    [name |-> <<67, 69, 78, 84, 69, 82>>, type |-> CENTER],
    [name |-> <<67, 79, 76>>, type |-> COL],
    [name |-> <<67, 79, 76, 71, 82, 79, 85, 80>>, type |-> COLGROUP],
    [name |-> <<68, 68>>, type |-> DD],
    [name |-> <<68, 73, 82>>, type |-> DIR],
    [name |-> <<68, 73, 86>>, type |-> DIV],
    [name |-> <<68, 76>>, type |-> DL],
    [name |-> <<68, 84>>, type |-> DT],
    [name |-> <<69, 77, 66, 69, 68>>, type |-> EMBED],
    [name |-> <<70, 73, 69, 76, 68, 83, 69, 84>>, type |-> FIELDSET],
    [name |-> <<70, 79, 82, 77>>, type |-> FORM],
    [name |-> <<70, 82, 65, 77, 69>>, type |-> FRAME],
    [name |-> <<70, 82, 65, 77, 69, 83, 69, 84>>, type |-> FRAMESET],
    [name |-> <<72, 49>>, type |-> H1],
    [name |-> <<72, 50>>, type |-> H2],
    [name |-> <<72, 51>>, type |-> H3],
    [name |-> <<72, 52>>, type |-> H4],
    [name |-> <<72, 53>>, type |-> H5],
    [name |-> <<72, 54>>, type |-> H6],
    [name |-> <<72, 69, 65, 68>>, type |-> HEAD],
    [name |-> <<72, 82>>, type |-> HR],
    [name |-> <<73, 70, 82, 65, 77, 69>>, type |-> IFRAME],
    [name |-> <<73, 77, 65, 71, 69>>, type |-> IMAGE],
    [name |-> <<73, 77, 71>>, type |-> IMG],
    [name |-> <<73, 78, 80, 85, 84>>, type |-> INPUT],
    [name |-> <<73, 83, 73, 78, 68, 69, 88>>, type |-> ISINDEX],
    [name |-> <<76, 73>>, type |-> LI],
    [name |-> <<76, 73, 78, 75>>, type |-> LINK],
    [name |-> <<76, 73, 83, 84, 73, 78, 71>>, type |-> LISTING],
    [name |-> <<77, 69, 78, 85>>, type |-> MENU],
    [name |-> <<77, 69, 84, 65>>, type |-> META],
    [name |-> <<78, 79, 69, 77, 66, 69, 68>>, type |-> NOEMBED],
    [name |-> <<78, 79, 70, 82, 65, 77, 69, 83>>, type |-> NOFRAMES],
    [name |-> <<78, 79, 83, 67, 82, 73, 80, 84>>, type |-> NOSCRIPT],
    [name |-> <<79, 76>>, type |-> OL],
    [name |-> <<79, 80, 84, 71, 82, 79, 85, 80>>, type |-> OPTGROUP],
    [name |-> <<79, 80, 84, 73, 79, 78>>, type |-> OPTION],
    [name |-> <<80>>, type |-> P],
    [name |-> <<80, 65, 82, 65, 77>>, type |-> PARAM],
    [name |-> <<80, 76, 65, 73, 78, 84, 69, 88, 84>>, type |-> PLAINTEXT],
    [name |-> <<80, 82, 69>>, type |-> PRE],
    [name |-> <<83, 67, 82, 73, 80, 84>>, type |-> SCRIPT],
    [name |-> <<83, 69, 76, 69, 67, 84>>, type |-> SELECT],
    [name |-> <<83, 80, 65, 67, 69, 82>>, type |-> SPACER],
    [name |-> <<83, 84, 89, 76, 69>>, type |-> STYLE],
    [name |-> <<84, 66, 79, 68, 89>>, type |-> TBODY],
    [name |-> <<84, 69, 88, 84, 65, 82, 69, 65>>, type |-> TEXTAREA],
    [name |-> <<84, 70, 79, 79, 84>>, type |-> TFOOT],
    [name |-> <<84, 72, 69, 65, 68>>, type |-> THEAD],
    [name |-> <<84, 73, 84, 76, 69>>, type |-> TITLE],
    [name |-> <<84, 82>>, type |-> TR],
    [name |-> <<85, 76>>, type |-> UL],
    [name |-> <<87, 66, 82>>, type |-> WBR],
    [name |-> <<65, 80, 80, 76, 69, 84>>, type |-> APPLET],
    [name |-> <<66, 85, 84, 84, 79, 78>>, type |-> BUTTON],
    [name |-> <<67, 65, 80, 84, 73, 79, 78>>, type |-> CAPTION],
    [name |-> <<72, 84, 77, 76>>, type |-> HTML],
    [name |-> <<77, 65, 82, 81, 85, 69, 69>>, type |-> MARQUEE],
    [name |-> <<79, 66, 74, 69, 67, 84>>, type |-> OBJECT],
    [name |-> <<84, 65, 66, 76, 69>>, type |-> TABLE],
    [name |-> <<84, 68>>, type |-> TD],
    [name |-> <<84, 72>>, type |-> TH],
    [name |-> <<65>>, type |-> A],
    [name |-> <<66>>, type |-> B],
    [name |-> <<66, 73, 71>>, type |-> BIG],
    [name |-> <<69, 77>>, type |-> EM],
    [name |-> <<70, 79, 78, 84>>, type |-> FONT],
    [name |-> <<73>>, type |-> I],
    [name |-> <<78, 79, 66, 82>>, type |-> NOBR],
    [name |-> <<83>>, type |-> S],
    [name |-> <<83, 77, 65, 76, 76>>, type |-> SMALL],
    [name |-> <<83, 84, 82, 73, 75, 69>>, type |-> STRIKE],
    [name |-> <<83, 84, 82, 79, 78, 71>>, type |-> STRONG],
    [name |-> <<84, 84>>, type |-> TT],
    [name |-> <<85>>, type |-> U]
  >>

\* Element types that name_type_map does not hold.
RP == 85
RT == 86
UNKNOWN == 105

(* -------------------------- element classifier ------------------------ *)

ToUpper(c) == IF c >= 97 /\ c <= 122 THEN c - 32 ELSE c

\* A faulty variant of SameNameNoCase: the lengths are not compared, the
\* bytes of a are compared with the first bytes of b.
SameNameNoCasePrefix(a, b) ==
  /\ Len(a) <= Len(b)
  /\ \A k \in 1..Len(a) : ToUpper(a[k]) = ToUpper(b[k])

\* strncasecmp(a, b, len) == 0 for two byte strings of the same length.
SameNameNoCase(a, b) ==
  /\ Len(a) = Len(b)
  /\ \A k \in 1..Len(a) : ToUpper(a[k]) = ToUpper(b[k])

\* The type of the first table entry of the same length that matches the
\* name under ASCII case folding, UNKNOWN when there is none.
element_type_from_name(tag_name) ==
  LET hits == {k \in 1..Len(name_type_map) :
                 SameNameNoCase(name_type_map[k].name, tag_name)}
  IN IF hits = {} THEN UNKNOWN
     ELSE name_type_map[CHOOSE k \in hits : \A j \in hits : k <= j].type

is_special_element(type) == type <= WBR

is_scoping_element(type) == type >= APPLET /\ type <= TH

is_formatting_element(type) == type >= A /\ type <= U

is_phrasing_element(type) == type > U

(* ------------------------------- state -------------------------------- *)

VARIABLES
  tree_handler,         \* TRUE when a tree handler is installed
  document,             \* context.document
  head_element,         \* context.head_element
  form_element,         \* context.form_element
  mode,                 \* context.mode
  element_stack,        \* context.element_stack[0 .. stack_alloc - 1]
  stack_alloc,          \* context.stack_alloc
  current_node,         \* context.current_node (uint32_t)
  current_table,        \* context.current_table (uint32_t)
  heap,                 \* the allocated formatting_list_entry objects
  formatting_list,      \* context.formatting_list (address of the head)
  formatting_list_end,  \* context.formatting_list_end (address of the tail)
  in_table_foster,      \* context.in_table_foster
  collect,              \* context.collect: mode, type, node, string
  content_model,        \* the tokeniser's content model
  input_buffer,         \* input_buffer: the tokeniser's buffer base
  input_buffer_len,     \* input_buffer_len
  buffer_handler,       \* buffer_handler: the client's callback, or NULL
  buffer_pw,            \* buffer_pw
  error_handler,        \* error_handler
  error_pw,             \* error_pw
  pbuffer,              \* the client's view of the buffer base (test/tree2.c)
  Document,             \* the sink's tree: its node_t objects (test/tree2.c)
  failed,               \* the process has stopped: a failed assert(), a
                        \* call through a NULL function pointer
  destroyed,            \* hubbub_treebuilder_destroy has run
  tokeniser,            \* the handlers the tokeniser holds, each with its pw
  made,                 \* "yes" when hubbub_treebuilder_create has returned
                        \* the treebuilder, "null" when it has returned NULL,
                        \* "no" before the call
  last,                 \* the last operation: its name, arguments, sink calls
  pc,                   \* where hubbub_treebuilder_token_handler is
  token,                \* the token it was called with
  reprocess,            \* the token handler's local flag
  calls                 \* what the mode handlers returned for this token

vars ==
  <<tree_handler, document, head_element, form_element, mode, element_stack,
    stack_alloc, current_node, current_table, heap, formatting_list,
    formatting_list_end, in_table_foster, collect, content_model,
    input_buffer, input_buffer_len, buffer_handler,
    buffer_pw, error_handler, error_pw, pbuffer, Document, failed,
    destroyed, tokeniser, made, last, pc, token, reprocess, calls>>

\* The fields the C functions work on, as one record, with what the running
\* operation has done so far: its sink calls (log), how many of its calls have
\* failed (faults), and whether the sink ran out of handles (spent).
Machine ==
  [tree_handler |-> tree_handler, document |-> document,
   head_element |-> head_element, form_element |-> form_element,
   mode |-> mode, element_stack |-> element_stack,
   stack_alloc |-> stack_alloc, current_node |-> current_node,
   current_table |-> current_table, heap |-> heap,
   formatting_list |-> formatting_list,
   formatting_list_end |-> formatting_list_end,
   in_table_foster |-> in_table_foster, collect |-> collect,
   content_model |-> content_model,
   input_buffer |-> input_buffer, input_buffer_len |-> input_buffer_len,
   buffer_handler |-> buffer_handler, buffer_pw |-> buffer_pw,
   error_handler |-> error_handler, error_pw |-> error_pw,
   pbuffer |-> pbuffer, Document |-> Document,
   failed |-> failed,
   log |-> <<>>, faults |-> 0, spent |-> FALSE]

\* The state after an operation that left the record m.
Becomes(m) ==
  /\ tree_handler' = m.tree_handler
  /\ document' = m.document
  /\ head_element' = m.head_element
  /\ form_element' = m.form_element
  /\ mode' = m.mode
  /\ element_stack' = m.element_stack
  /\ stack_alloc' = m.stack_alloc
  /\ current_node' = m.current_node
  /\ current_table' = m.current_table
  /\ heap' = m.heap
  /\ formatting_list' = m.formatting_list
  /\ formatting_list_end' = m.formatting_list_end
  /\ in_table_foster' = m.in_table_foster
  /\ collect' = m.collect
  /\ content_model' = m.content_model
  /\ input_buffer' = m.input_buffer
  /\ input_buffer_len' = m.input_buffer_len
  /\ buffer_handler' = m.buffer_handler
  /\ buffer_pw' = m.buffer_pw
  /\ error_handler' = m.error_handler
  /\ error_pw' = m.error_pw
  /\ pbuffer' = m.pbuffer
  /\ Document' = m.Document
  /\ failed' = m.failed

(* A uint32_t is held by its two's complement reading, the width of TLC's
   integers: 0xFFFFFFFF is -1, and 0 - 1 wraps to it. *)
\* (signed) x of a uint32_t x: the same bits.
Signed(x) == x

\* a >= b as the C compiler compares two uint32_t.
UnsignedGe(a, b) == IF (a < 0) = (b < 0) THEN a >= b ELSE a < 0

Frame(ns, type, node) == [ns |-> ns, type |-> type, node |-> node]

\* A frame of the array that holds nothing the code reads: one that nothing
\* has written yet, or one above current_node (no function reads a frame
\* above current_node before a push writes it, so the model forgets it).
UninitFrame == Frame(HUBBUB_NS_NULL, 0, Wild)

(* ------------------------------ the sink ------------------------------ *)

Call(name, ok, a, b, r) == [call |-> name, ok |-> ok, a |-> a, b |-> b, r |-> r]

\* The handles the sink gives to the nodes it makes.
Handles == (DocumentNode + 1)..(DocumentNode + MaxNodes)

\* The handles the treebuilder refers to: in its frames, its list, its head
\* and form elements, and in the sink calls of the running operation.
InUse(m) ==
  ({m.element_stack[k].node : k \in 0..m.current_node}
     \cup {m.heap[a].node : a \in DOMAIN m.heap}
     \cup {m.head_element, m.form_element, m.collect.node}
     \cup {m.log[k].a : k \in 1..Len(m.log)}
     \cup {m.log[k].b : k \in 1..Len(m.log)}
     \cup {m.log[k].r : k \in 1..Len(m.log)}) \cap Handles

\* What an output parameter holds when the call that should set it failed:
\* the local was never initialised.  It holds a handle the treebuilder
\* uses, or anything else (Wild).
Uninit(m) == {Wild} \cup InUse(m)

\* The handle of a new node: one that the treebuilder refers to nowhere (a
\* handle it has dropped everywhere is as good as a new one, so the lowest
\* such handle names the new node).
FreshNode(m) ==
  LET free == Handles \ InUse(m)
  IN IF free = {} THEN Wild ELSE CHOOSE n \in free : \A k \in free : n <= k

\* create_comment, create_element, create_text, clone_node: a new node, or
\* a failure that leaves *result as it was (garbage).
SinkCreate(m, name, arg, ok, garbage) ==
  IF ok
    THEN [m |-> [m EXCEPT !.spent = @ \/ Handles \subseteq InUse(m),
                          !.log = Append(@, Call(name, TRUE, arg, NULL, FreshNode(m)))],
          ok |-> TRUE, r |-> FreshNode(m)]
    ELSE [m |-> [m EXCEPT !.faults = @ + 1,
                          !.log = Append(@, Call(name, FALSE, arg, NULL, garbage))],
          ok |-> FALSE, r |-> garbage]

\* append_child: *result = child (test/tree2.c), or a failure.
SinkAppendChild(m, parent, child, ok, garbage) ==
  IF ok
    THEN [m |-> [m EXCEPT !.log = Append(@, Call("append_child", TRUE, parent, child, child))],
          ok |-> TRUE, r |-> child]
    ELSE [m |-> [m EXCEPT !.faults = @ + 1,
                          !.log = Append(@, Call("append_child", FALSE, parent, child, garbage))],
          ok |-> FALSE, r |-> garbage]

SinkUnref(m, node) ==
  [m EXCEPT !.log = Append(@, Call("unref_node", TRUE, node, NULL, NULL))]

(* ----------------------- formatting list (heap) ----------------------- *)

\* The allocator has room for the longest list of the model.
MaxAddrs == IF MaxEntries > MaxListEntries THEN MaxEntries ELSE MaxListEntries

Addrs == 1..MaxAddrs

RECURSIVE WalkPrev(_, _, _)
\* The addresses met from entry a following prev, a first (at most n).
WalkPrev(h, a, n) ==
  IF a = NULL \/ n = 0 \/ a \notin DOMAIN h THEN <<>>
  ELSE <<a>> \o WalkPrev(h, h[a].prev, n - 1)

RECURSIVE WalkNext(_, _, _)
\* The addresses met from entry a following next, a first (at most n).
WalkNext(h, a, n) ==
  IF a = NULL \/ n = 0 \/ a \notin DOMAIN h THEN <<>>
  ELSE <<a>> \o WalkNext(h, h[a].next, n - 1)

\* The list from head to tail, as the addresses of its entries.
ListOf(m) == WalkNext(m.heap, m.formatting_list, MaxAddrs + 1)

(* ---------------------- stack of open elements ------------------------ *)

\* The array after realloc to n frames: the old frames, then unwritten ones.
GrownStack(stack, old, n) ==
  [k \in 0..(n - 1) |-> IF k < old THEN stack[k] ELSE UninitFrame]

\* A faulty variant of element_stack_push: it grows the array by one frame.
element_stack_push_grow_one(m, ns, type, node, alloc_ok) ==
  LET slot == m.current_node + 1
      grow == UnsignedGe(slot, m.stack_alloc)
  IN IF grow /\ ~alloc_ok
       THEN [m |-> [m EXCEPT !.faults = @ + 1], ret |-> FALSE]
       ELSE
         LET alloc1 == IF grow THEN m.stack_alloc + 1 ELSE m.stack_alloc
             stack1 == IF grow
                         THEN GrownStack(m.element_stack, m.stack_alloc, alloc1)
                         ELSE m.element_stack
         IN [m |-> [m EXCEPT
                      !.element_stack = [stack1 EXCEPT ![slot] = Frame(ns, type, node)],
                      !.stack_alloc = alloc1,
                      !.current_node = slot,
                      !.current_table = IF type = TABLE THEN slot ELSE @],
             ret |-> TRUE]

\* A faulty variant of element_stack_push: it leaves current_table alone.
element_stack_push_no_table(m, ns, type, node, alloc_ok) ==
  LET slot == m.current_node + 1
      grow == UnsignedGe(slot, m.stack_alloc)
  IN IF grow /\ ~alloc_ok
       THEN [m |-> [m EXCEPT !.faults = @ + 1], ret |-> FALSE]
       ELSE
         LET alloc1 == IF grow THEN m.stack_alloc + ELEMENT_STACK_CHUNK
                       ELSE m.stack_alloc
             stack1 == IF grow
                         THEN GrownStack(m.element_stack, m.stack_alloc, alloc1)
                         ELSE m.element_stack
         IN [m |-> [m EXCEPT
                      !.element_stack = [stack1 EXCEPT ![slot] = Frame(ns, type, node)],
                      !.stack_alloc = alloc1,
                      !.current_node = slot],
             ret |-> TRUE]

element_stack_push(m, ns, type, node, alloc_ok) ==
  LET slot == m.current_node + 1
      grow == UnsignedGe(slot, m.stack_alloc)
  IN IF grow /\ ~alloc_ok
       THEN [m |-> [m EXCEPT !.faults = @ + 1], ret |-> FALSE]
       ELSE
         LET alloc1 == IF grow THEN m.stack_alloc + ELEMENT_STACK_CHUNK
                       ELSE m.stack_alloc
             stack1 == IF grow
                         THEN GrownStack(m.element_stack, m.stack_alloc, alloc1)
                         ELSE m.element_stack
         IN [m |-> [m EXCEPT
                      !.element_stack = [stack1 EXCEPT ![slot] = Frame(ns, type, node)],
                      !.stack_alloc = alloc1,
                      !.current_node = slot,
                      !.current_table = IF type = TABLE THEN slot ELSE @],
             ret |-> TRUE]

\* A faulty variant of PrevTable: it forgets the tables below.
PrevTableNone(stack, slot) == 0

\* for (t = slot - 1; t > 0; t--) if (stack[t].type == TABLE) break;
PrevTable(stack, slot) ==
  LET below == {t \in 1..(slot - 1) : stack[t].type = TABLE}
  IN IF below = {} THEN 0 ELSE CHOOSE t \in below : \A u \in below : u <= t

\* The popped types whose list entries lose their stack index.
InvalidatesEntries(type) ==
  \/ is_formatting_element(type)
  \/ (is_scoping_element(type) /\ type # HTML /\ type # TABLE)

\* A faulty variant of InvalidateEntries: every entry gets 0, whatever its
\* stack index.
InvalidateEntriesAll(m, slot) ==
  [a \in DOMAIN m.heap |-> [m.heap[a] EXCEPT !.stack_index = 0]]

\* Every entry met from the tail following prev that points at slot gets 0.
InvalidateEntries(m, slot) ==
  LET met == WalkPrev(m.heap, m.formatting_list_end, MaxAddrs + 1)
      at == {met[k] : k \in 1..Len(met)}
  IN [a \in DOMAIN m.heap |->
        IF a \in at /\ m.heap[a].stack_index = slot
          THEN [m.heap[a] EXCEPT !.stack_index = 0]
          ELSE m.heap[a]]

\* A faulty variant of element_stack_pop: it drops two frames.
element_stack_pop_two(m) ==
  LET fr == m.element_stack[m.current_node]
      node1 == m.current_node - 2
  IN [m |-> [m EXCEPT !.current_node = node1,
                      !.failed = @ \/ Signed(node1) < 0],
      ret |-> TRUE, ns |-> fr.ns, type |-> fr.type, node |-> fr.node]

element_stack_pop(m) ==
  LET stack == m.element_stack
      slot == m.current_node
      fr == stack[slot]
      table1 == IF fr.type = TABLE THEN PrevTable(stack, slot)
                ELSE m.current_table
      heap1 == IF InvalidatesEntries(fr.type) THEN InvalidateEntries(m, slot)
               ELSE m.heap
      node1 == slot - 1
  IN [m |-> [m EXCEPT !.element_stack[slot] = UninitFrame,
                      !.current_table = table1,
                      !.heap = heap1,
                      !.current_node = node1,
                      \* assert((signed) current_node >= 0)
                      !.failed = @ \/ Signed(node1) < 0],
      ret |-> TRUE, ns |-> fr.ns, type |-> fr.type, node |-> fr.node]

RECURSIVE pop_until_loop(_, _, _)
\* while (otype != type) { pop; unref_node(node); assert(...); }
pop_until_loop(m, type, otype) ==
  IF otype = type THEN m
  ELSE LET p == element_stack_pop(m)
       IN IF p.m.failed THEN p.m
          ELSE pop_until_loop(SinkUnref(p.m, p.node), type, p.type)

element_stack_pop_until(m, type) ==
  [m |-> pop_until_loop(m, type, UNKNOWN), ret |-> TRUE]

current_node_type(m) == m.element_stack[m.current_node].type

ImpliedEndTagTypes == {DD, DT, LI, OPTION, OPTGROUP, P, RP, RT}

RECURSIVE close_implied_end_tags_all(_, _)
\* A faulty variant of close_implied_end_tags: it ignores the exception.
close_implied_end_tags_all(m, except) ==
  LET type == current_node_type(m)
  IN IF type \notin ImpliedEndTagTypes THEN m
     ELSE LET p == element_stack_pop(m)
          IN IF p.m.failed THEN p.m
             ELSE close_implied_end_tags_all(SinkUnref(p.m, p.node), except)

RECURSIVE close_implied_end_tags(_, _)
close_implied_end_tags(m, except) ==
  LET type == current_node_type(m)
  IN IF type \notin ImpliedEndTagTypes THEN m
     ELSE IF except # UNKNOWN /\ type = except THEN m
     ELSE LET p == element_stack_pop(m)
          IN IF p.m.failed THEN p.m
             ELSE close_implied_end_tags(SinkUnref(p.m, p.node), except)

RECURSIVE scope_scan_default_only(_, _, _, _)
\* A faulty variant of scope_scan: in_table is not looked at, every scoping
\* frame ends the scope.
scope_scan_default_only(m, type, in_table, node) ==
  IF node = 0 THEN 0
  ELSE LET node_type == m.element_stack[node].type
       IN IF node_type = type THEN node
          ELSE IF node_type = TABLE THEN 0
          ELSE IF is_scoping_element(node_type) THEN 0
          ELSE scope_scan_default_only(m, type, in_table, node - 1)

\* The frame index of the topmost frame of the type that is in scope, or 0.
RECURSIVE scope_scan(_, _, _, _)
scope_scan(m, type, in_table, node) ==
  IF node = 0 THEN 0
  ELSE LET node_type == m.element_stack[node].type
       IN IF node_type = type THEN node
          ELSE IF node_type = TABLE THEN 0
          ELSE IF ~in_table /\ is_scoping_element(node_type) THEN 0
          ELSE scope_scan(m, type, in_table, node - 1)

element_in_scope(m, type, in_table) ==
  scope_scan(m, type, in_table, m.current_node)

(* ------------------ list of active formatting elements ---------------- *)

EmptyHeap == [a \in {} |-> NULL]

\* The address the allocator returns: the lowest one not in use.
FreshAddr(h) == CHOOSE a \in Addrs \ DOMAIN h : \A b \in Addrs \ DOMAIN h : a <= b

Entry(ns, type, node, stack_index, prev, next) ==
  [ns |-> ns, type |-> type, node |-> node, stack_index |-> stack_index,
   prev |-> prev, next |-> next]

\* details.ns is not set by the function: it keeps what the memory held.
formatting_list_append(m, type, node, stack_index, alloc_ok, old_ns) ==
  IF ~alloc_ok
    THEN [m |-> [m EXCEPT !.faults = @ + 1], ret |-> FALSE]
    ELSE
      LET entry == FreshAddr(m.heap)
          prev == m.formatting_list_end
          heap1 == [a \in DOMAIN m.heap \cup {entry} |->
                      IF a = entry
                        THEN Entry(old_ns, type, node, stack_index, prev, NULL)
                      ELSE IF a = prev THEN [m.heap[a] EXCEPT !.next = entry]
                      ELSE m.heap[a]]
      IN [m |-> [m EXCEPT !.heap = heap1,
                          !.formatting_list = IF prev # NULL THEN @ ELSE entry,
                          !.formatting_list_end = entry],
          ret |-> TRUE]

\* A faulty variant of formatting_list_insert: next->prev is not set.
formatting_list_insert_no_back_link(m, prev, next, type, node, stack_index, alloc_ok, old_ns) ==
  IF \/ (prev # NULL /\ m.heap[prev].next # next)
     \/ (next # NULL /\ m.heap[next].prev # prev)
    THEN [m |-> [m EXCEPT !.failed = TRUE], ret |-> FALSE]
  ELSE IF ~alloc_ok
    THEN [m |-> [m EXCEPT !.faults = @ + 1], ret |-> FALSE]
  ELSE
    LET entry == FreshAddr(m.heap)
        heap1 == [a \in DOMAIN m.heap \cup {entry} |->
                    IF a = entry
                      THEN Entry(old_ns, type, node, stack_index, prev, next)
                    ELSE IF a = prev THEN [m.heap[a] EXCEPT !.next = entry]
                    ELSE m.heap[a]]
    IN [m |-> [m EXCEPT !.heap = heap1,
                        !.formatting_list = IF prev # NULL THEN @ ELSE entry,
                        !.formatting_list_end = IF next # NULL THEN @ ELSE entry],
        ret |-> TRUE]

\* The two asserts stop the process when prev and next are not neighbours;
\* details.ns keeps what the memory held.
formatting_list_insert(m, prev, next, type, node, stack_index, alloc_ok, old_ns) ==
  IF \/ (prev # NULL /\ m.heap[prev].next # next)
     \/ (next # NULL /\ m.heap[next].prev # prev)
    THEN [m |-> [m EXCEPT !.failed = TRUE], ret |-> FALSE]
  ELSE IF ~alloc_ok
    THEN [m |-> [m EXCEPT !.faults = @ + 1], ret |-> FALSE]
  ELSE
    LET entry == FreshAddr(m.heap)
        heap1 == [a \in DOMAIN m.heap \cup {entry} |->
                    IF a = entry
                      THEN Entry(old_ns, type, node, stack_index, prev, next)
                    ELSE IF a = prev /\ a = next
                      THEN [m.heap[a] EXCEPT !.next = entry, !.prev = entry]
                    ELSE IF a = prev THEN [m.heap[a] EXCEPT !.next = entry]
                    ELSE IF a = next THEN [m.heap[a] EXCEPT !.prev = entry]
                    ELSE m.heap[a]]
    IN [m |-> [m EXCEPT !.heap = heap1,
                        !.formatting_list = IF prev # NULL THEN @ ELSE entry,
                        !.formatting_list_end = IF next # NULL THEN @ ELSE entry],
        ret |-> TRUE]

formatting_list_remove(m, entry) ==
  LET e == m.heap[entry]
      heap1 == [a \in DOMAIN m.heap \ {entry} |->
                  IF a = e.prev /\ a = e.next
                    THEN [m.heap[a] EXCEPT !.next = e.next, !.prev = e.prev]
                  ELSE IF a = e.prev THEN [m.heap[a] EXCEPT !.next = e.next]
                  ELSE IF a = e.next THEN [m.heap[a] EXCEPT !.prev = e.prev]
                  ELSE m.heap[a]]
  IN [m |-> [m EXCEPT !.heap = heap1,
                      !.formatting_list = IF e.prev = NULL THEN e.next ELSE @,
                      !.formatting_list_end = IF e.next = NULL THEN e.prev ELSE @],
      ret |-> TRUE, type |-> e.type, node |-> e.node,
      stack_index |-> e.stack_index]

formatting_list_replace(m, entry, type, node, stack_index) ==
  LET e == m.heap[entry]
  IN [m |-> [m EXCEPT !.heap[entry] = [e EXCEPT !.type = type, !.node = node,
                                                !.stack_index = stack_index]],
      ret |-> TRUE, otype |-> e.type, onode |-> e.node,
      ostack_index |-> e.stack_index]

RECURSIVE RunStartAtHead(_, _)
\* A faulty variant of RunStart: it walks back to the head of the list.
RunStartAtHead(h, entry) ==
  IF h[entry].prev = NULL THEN entry ELSE RunStartAtHead(h, h[entry].prev)

RECURSIVE RunStart(_, _)
\* while (entry->prev != NULL) { entry = entry->prev;
\*   if (scoping or still open) { entry = entry->next; break; } }
RunStart(h, entry) ==
  IF h[entry].prev = NULL THEN entry
  ELSE LET p == h[entry].prev
       IN IF is_scoping_element(h[p].type) \/ h[p].stack_index # 0
            THEN h[p].next
            ELSE RunStart(h, p)

\* What the calls of one iteration of a loop do: succeed or fail.
Outcome == [clone_ok : BOOLEAN, append_ok : BOOLEAN, alloc_ok : BOOLEAN]

RECURSIVE reconstruct_loop(_, _, _, _)
reconstruct_loop(m, entry, o, k) ==
  IF entry = NULL THEN m
  ELSE
    LET e == m.heap[entry]
        c == SinkCreate(m, "clone_node", e.node, o[k].clone_ok, Wild)
    IN IF ~c.ok THEN c.m
       ELSE
         LET a == SinkAppendChild(c.m,
                    c.m.element_stack[c.m.current_node].node, c.r,
                    o[k].append_ok, Wild)
         IN IF ~a.ok THEN SinkUnref(a.m, c.r)
            ELSE
              LET p == element_stack_push(a.m, e.ns, e.type, a.r, o[k].alloc_ok)
                  m1 == IF p.ret THEN p.m
                        ELSE SinkUnref(SinkUnref(p.m, a.r), c.r)
                  r == formatting_list_replace(m1, entry, e.type, c.r,
                                               m1.current_node)
                  m2 == IF r.ret THEN r.m ELSE SinkUnref(r.m, c.r)
                  m3 == SinkUnref(m2, r.onode)
              IN reconstruct_loop(m3, m3.heap[entry].next, o, k + 1)

reconstruct_active_formatting_list(m, o) ==
  IF m.formatting_list = NULL THEN m
  ELSE LET entry == m.formatting_list_end
       IN IF is_scoping_element(m.heap[entry].type)
               \/ m.heap[entry].stack_index # 0
            THEN m
            ELSE reconstruct_loop(m, RunStart(m.heap, entry), o, 1)

RECURSIVE clear_to_marker_exclusive(_)
\* A faulty variant of clear_active_formatting_list_to_marker: the marker
\* itself stays in the list.
clear_to_marker_exclusive(m) ==
  LET entry == m.formatting_list_end
  IN IF entry = NULL \/ is_scoping_element(m.heap[entry].type) THEN m
     ELSE LET r == formatting_list_remove(m, entry)
          IN clear_to_marker_exclusive(SinkUnref(r.m, r.node))

RECURSIVE clear_active_formatting_list_to_marker(_)
clear_active_formatting_list_to_marker(m) ==
  LET entry == m.formatting_list_end
  IN IF entry = NULL THEN m
     ELSE LET done == is_scoping_element(m.heap[entry].type)
              r == formatting_list_remove(m, entry)
              m1 == SinkUnref(r.m, r.node)
          IN IF done THEN m1
             ELSE clear_active_formatting_list_to_marker(m1)

(* ------------------------- tree-sink adapter -------------------------- *)

\* What the two sink calls and the push of one helper do, and what its
\* locals hold when a call that should set them fails.
Outcomes(m) ==
  LET left == MaxFaults
      Cost(c, a, l) == (IF c THEN 0 ELSE 1) + (IF a THEN 0 ELSE 1)
                         + (IF l THEN 0 ELSE 1)
      flags == {f \in BOOLEAN \X BOOLEAN \X BOOLEAN :
                  Cost(f[1], f[2], f[3]) <= left}
  IN UNION {
       {[create_ok |-> f[1], append_ok |-> f[2], alloc_ok |-> f[3],
         node |-> n, appended |-> p] :
            n \in (IF f[1] THEN {Wild} ELSE Uninit(m)),
            p \in (IF f[2] THEN {Wild} ELSE Uninit(m))} : f \in flags}

insert_element(m, tag, o) ==
  LET c == SinkCreate(m, "create_element", NULL, o.create_ok, o.node)
      a == SinkAppendChild(c.m, c.m.element_stack[c.m.current_node].node,
                           c.r, o.append_ok, o.appended)
      m1 == SinkUnref(a.m, a.r)
      p == element_stack_push(m1, tag.ns, element_type_from_name(tag.name),
                              c.r, o.alloc_ok)
  IN p.m

insert_element_no_push(m, tag, o) ==
  LET c == SinkCreate(m, "create_element", NULL, o.create_ok, o.node)
      a == SinkAppendChild(c.m, c.m.element_stack[c.m.current_node].node,
                           c.r, o.append_ok, o.appended)
      m1 == SinkUnref(a.m, a.r)
  IN SinkUnref(m1, c.r)

append_text(m, string, o) ==
  LET c == SinkCreate(m, "create_text", NULL, o.create_ok, o.node)
      a == SinkAppendChild(c.m, c.m.element_stack[c.m.current_node].node,
                           c.r, o.append_ok, o.appended)
      m1 == IF ~a.ok THEN SinkUnref(a.m, c.r) ELSE a.m
      m2 == SinkUnref(m1, a.r)
  IN SinkUnref(m2, c.r)

\* U+0009, U+000A, U+000C, U+0020.
IsWhitespace(byte) == byte = 9 \/ byte = 10 \/ byte = 12 \/ byte = 32

\* A faulty variant of LeadingWhitespace: a form feed ends the run.
LeadingWhitespaceNoFormFeed(data, len) ==
  LET stops == {c \in 0..(len - 1) :
                  ~IsWhitespace(data[c + 1]) \/ data[c + 1] = 12}
  IN IF stops = {} THEN len
     ELSE CHOOSE c \in stops : \A d \in stops : c <= d

\* for (c = 0; c < len; c++) if (data[c] is not whitespace) break;
LeadingWhitespace(data, len) ==
  LET stops == {c \in 0..(len - 1) : ~IsWhitespace(data[c + 1])}
  IN IF stops = {} THEN len
     ELSE CHOOSE c \in stops : \A d \in stops : c <= d

\* The bytes of the input buffer from an offset on.
BytesFrom(bytes, off) == SubSeq(bytes, off + 1, Len(bytes))

\* bytes is what the input buffer holds. The result carries the token as the
\* function leaves it and the string it has handed to append_text, if any.
process_characters_expect_whitespace(m, bytes, tok, insert_into_current_node, o) ==
  LET data == BytesFrom(bytes, tok.off)
      len == tok.len
      c == LeadingWhitespace(data, len)
      temp == [off |-> tok.off, len |-> len - c]
  IN IF c # len
       THEN IF c > 0 /\ insert_into_current_node
              THEN [m |-> append_text(m, temp, o), ret |-> TRUE,
                    token |-> [off |-> tok.off + c, len |-> tok.len - c],
                    text |-> <<temp>>]
              ELSE [m |-> m, ret |-> TRUE,
                    token |-> [off |-> tok.off + c, len |-> tok.len - c],
                    text |-> <<>>]
       ELSE [m |-> m, ret |-> FALSE, token |-> tok, text |-> <<>>]

process_comment_append(m, comment, parent, o) ==
  LET c == SinkCreate(m, "create_comment", NULL, o.create_ok, o.node)
      a == SinkAppendChild(c.m, parent, c.r, o.append_ok, o.appended)
      m1 == IF ~a.ok THEN SinkUnref(a.m, c.r) ELSE a.m
      m2 == SinkUnref(m1, a.r)
  IN SinkUnref(m2, c.r)

(* --------------------------- insertion mode --------------------------- *)

RECURSIVE reset_scan_upwards(_, _)
\* A faulty variant of reset_scan: it reads the stack from frame 1 upwards.
reset_scan_upwards(m, node) ==
  LET from == m.current_node + 1 - node
      type == m.element_stack[from].type
  IN IF node = 0 THEN m
     ELSE IF type \in {TD, TH} THEN [m EXCEPT !.mode = "IN_CELL"]
     ELSE IF type = TR THEN [m EXCEPT !.mode = "IN_ROW"]
     ELSE IF type \in {TBODY, TFOOT, THEAD}
       THEN [m EXCEPT !.mode = "IN_TABLE_BODY"]
     ELSE IF type = CAPTION THEN [m EXCEPT !.mode = "IN_CAPTION"]
     ELSE IF type = TABLE THEN [m EXCEPT !.mode = "IN_TABLE"]
     ELSE IF type = BODY THEN [m EXCEPT !.mode = "IN_BODY"]
     ELSE reset_scan_upwards(m, node - 1)

RECURSIVE reset_scan(_, _)
\* for (node = current_node; node > 0; node--) switch (stack[node].type)
reset_scan(m, node) ==
  LET type == m.element_stack[node].type
  IN IF node = 0 THEN m
     ELSE IF type \in {TD, TH} THEN [m EXCEPT !.mode = "IN_CELL"]
     ELSE IF type = TR THEN [m EXCEPT !.mode = "IN_ROW"]
     ELSE IF type \in {TBODY, TFOOT, THEAD}
       THEN [m EXCEPT !.mode = "IN_TABLE_BODY"]
     ELSE IF type = CAPTION THEN [m EXCEPT !.mode = "IN_CAPTION"]
     ELSE IF type = TABLE THEN [m EXCEPT !.mode = "IN_TABLE"]
     ELSE IF type = BODY THEN [m EXCEPT !.mode = "IN_BODY"]
     ELSE reset_scan(m, node - 1)

reset_insertion_mode(m) == reset_scan(m, m.current_node)

\* A faulty variant of CollectOf: what was collected before is kept.
CollectKeepingString(m, type, node) ==
  [m.collect EXCEPT !.mode = m.mode, !.type = type, !.node = node]

\* context.collect as parse_generic_rcdata sets it.
CollectOf(m, type, node) ==
  [mode |-> m.mode, type |-> type, node |-> node,
   string |-> [off |-> 0, len |-> 0]]

parse_generic_rcdata(m, tag, rcdata, o) ==
  LET type == element_type_from_name(tag.name)
      c == SinkCreate(m, "create_element", NULL, o.create_ok, o.node)
      a == SinkAppendChild(c.m, c.m.element_stack[c.m.current_node].node,
                           c.r, o.append_ok, o.appended)
      m1 == IF ~a.ok THEN SinkUnref(a.m, c.r) ELSE a.m
      m2 == [m1 EXCEPT !.content_model = IF rcdata THEN "RCDATA" ELSE "CDATA",
                       !.collect = CollectOf(m1, type, c.r)]
      m3 == SinkUnref(m2, a.r)
  IN [m3 EXCEPT !.mode = "GENERIC_RCDATA"]

(* ------------------------- foreign attributes ------------------------- *)

HUBBUB_NS_XLINK == 4
HUBBUB_NS_XML == 5
HUBBUB_NS_XMLNS == 6

\* strncmp(name, prefix, SLEN(prefix)) == 0; the name ends where the
\* attribute's value or a delimiter follows, which is no byte of a prefix.
HasPrefix(name, prefix) ==
  /\ Len(name) >= Len(prefix)
  /\ SubSeq(name, 1, Len(prefix)) = prefix

\* hubbub_string_match: the same length and the same bytes.
hubbub_string_match(a, b) == a = b

\* The names the code looks for, as the bytes of its string literals.
XlinkPrefix == <<120, 108, 105, 110, 107, 58>>
XmlPrefix == <<120, 109, 108, 58>>
XlinkNames ==
  {<<97, 99, 116, 117, 116, 97, 116, 101>>,
   <<97, 114, 99, 114, 111, 108, 101>>,
   <<104, 114, 101, 102>>,
   <<114, 111, 108, 101>>,
   <<115, 104, 111, 119>>,
   <<116, 105, 116, 108, 101>>,
   <<116, 121, 112, 101>>}
XmlNames ==
  {<<98, 97, 115, 101>>,
   <<108, 97, 110, 103>>,
   <<115, 112, 97, 99, 101>>}
XmlnsNames ==
  {<<120, 109, 108, 110, 115>>,
   <<120, 109, 108, 110, 115, 58, 120, 108, 105, 110, 107>>}

\* The body of the loop for one attribute, whose name is the bytes name. The
\* lengths are size_t, read as signed: 5 - 6 is the all-ones value, -1.
adjust_attribute(attr, name) ==
  IF attr.name.len >= 10 /\ HasPrefix(name, XlinkPrefix)
    THEN IF \E x \in XlinkNames :
               hubbub_string_match(SubSeq(name, 7, Len(name)), x)
           THEN [attr EXCEPT !.ns = HUBBUB_NS_XLINK,
                             !.name = [off |-> @.off + 6, len |-> @.len - 6]]
           ELSE attr
  ELSE IF attr.name.len >= 8 /\ HasPrefix(name, XmlPrefix)
    THEN IF \E x \in XmlNames :
               hubbub_string_match(SubSeq(name, 5, Len(name)), x)
           THEN [attr EXCEPT !.ns = HUBBUB_NS_XML,
                             !.name = [off |-> @.off + 4, len |-> @.len - 4]]
           ELSE attr
  ELSE IF \E x \in XmlnsNames : hubbub_string_match(name, x)
    THEN [attr EXCEPT !.ns = HUBBUB_NS_XMLNS,
                      !.name = [off |-> @.off + 6, len |-> @.len - 6]]
    ELSE attr

\* for (i = 0; i < tag->n_attributes; i++): bytes is what the input buffer
\* holds.
adjust_foreign_attributes(bytes, attributes) ==
  [i \in 1..Len(attributes) |->
     adjust_attribute(attributes[i],
                      SubSeq(bytes, attributes[i].name.off + 1,
                             attributes[i].name.off + attributes[i].name.len))]

(* ------------------------------ teardown ------------------------------ *)

RECURSIVE UnrefFramesAboveOne(_, _)
\* A faulty variant of UnrefFrames: it stops above frame 1.
UnrefFramesAboveOne(m, n) ==
  IF n <= 1 THEN m
  ELSE UnrefFramesAboveOne(SinkUnref(m, m.element_stack[n].node), n - 1)

RECURSIVE UnrefFrames(_, _)
\* for (n = current_node; n > 0; n--) unref_node(element_stack[n].node);
UnrefFrames(m, n) ==
  IF n = 0 THEN m
  ELSE UnrefFrames(SinkUnref(m, m.element_stack[n].node), n - 1)

RECURSIVE FreeEntries(_, _)
\* for (entry = formatting_list; entry != NULL; entry = next)
FreeEntries(m, entry) ==
  IF entry = NULL THEN m
  ELSE LET next == m.heap[entry].next
           m1 == IF m.tree_handler THEN SinkUnref(m, m.heap[entry].node) ELSE m
       IN FreeEntries([m1 EXCEPT !.heap = [a \in DOMAIN @ \ {entry} |-> @[a]]],
                      next)

hubbub_treebuilder_destroy(m) ==
  LET m1 == IF m.tree_handler /\ m.head_element # NULL
              THEN SinkUnref(m, m.head_element) ELSE m
      m2 == IF m.tree_handler /\ m.form_element # NULL
              THEN SinkUnref(m1, m.form_element) ELSE m1
      m3 == IF m.tree_handler /\ m.document # NULL
              THEN SinkUnref(m2, m.document) ELSE m2
      m4 == IF m.tree_handler THEN UnrefFrames(m3, m.current_node) ELSE m3
      m5 == IF m.tree_handler /\ m.element_stack[0].type = HTML
              THEN SinkUnref(m4, m.element_stack[0].node) ELSE m4
      \* alloc(element_stack, 0, pw); element_stack = NULL;
      m6 == [m5 EXCEPT !.element_stack = <<>>]
  IN FreeEntries(m6, m.formatting_list)

(* ------------------------ the test's serialiser ----------------------- *)

\* ns_names: the prefix printed for a namespace, "" where the table has NULL.
ns_names(ns) ==
  CASE ns = HUBBUB_NS_SVG -> "svg"
    [] ns = HUBBUB_NS_MATHML -> "math"
    [] OTHER -> ""

RECURSIVE indent_spaces(_)
indent_spaces(depth) == IF depth = 0 THEN "" ELSE "  " \o indent_spaces(depth - 1)

indent(depth) == "| " \o indent_spaces(depth)

print_ns(ns) == IF ns_names(ns) # "" THEN ns_names(ns) \o " " ELSE ""

\* The attribute names of the model, in strcmp order.
AttrNames == <<"a", "b">>

\* compare_attrs: strcmp of the two names, as a sign.
compare_attrs(first, second) ==
  LET Rank(name) == CHOOSE i \in 1..Len(AttrNames) : AttrNames[i] = name
  IN Rank(first.name) - Rank(second.name)

RECURSIVE qsort(_)
\* qsort with compare_attrs, for attributes whose names differ.
qsort(attrs) ==
  IF attrs = <<>> THEN <<>>
  ELSE LET least == CHOOSE i \in 1..Len(attrs) :
                      \A j \in 1..Len(attrs) :
                         compare_attrs(attrs[i], attrs[j]) <= 0
           rest == [k \in 1..(Len(attrs) - 1) |->
                      IF k < least THEN attrs[k] ELSE attrs[k + 1]]
       IN <<attrs[least]>> \o qsort(rest)

RECURSIVE print_attrs(_, _)
print_attrs(attrs, depth) ==
  IF attrs = <<>> THEN ""
  ELSE indent(depth) \o print_ns(attrs[1].ns) \o attrs[1].name \o "=" \o "\""
         \o attrs[1].value \o "\"\n" \o print_attrs(Tail(attrs), depth)

RECURSIVE node_print(_, _, _)
\* node_print: the node, then its children one level deeper, then its next
\* sibling.  A DOCTYPE node is printed without its name.
node_print(nodes, node, depth) ==
  IF node = NULL THEN ""
  ELSE LET n == nodes[node]
           line ==
             CASE n.type = "DOCTYPE" -> "<!DOCTYPE \n"
               [] n.type = "ELEMENT" ->
                    "<" \o print_ns(n.ns) \o n.name \o ">\n"
                      \o print_attrs(qsort(n.attrs), depth + 1)
               [] n.type = "CHARACTER" -> "\"" \o n.content \o "\"\n"
               [] n.type = "COMMENT" -> "<!-- " \o n.content \o " -->\n"
       IN indent(depth) \o line
            \o node_print(nodes, n.child, depth + 1)
            \o node_print(nodes, n.next, depth)

RECURSIVE html5lib_document(_, _, _)
\* The #document block of an html5lib test case for the same tree: one line
\* per node and attribute, a DOCTYPE node as <!DOCTYPE name>.
html5lib_document(nodes, node, depth) ==
  IF node = NULL THEN ""
  ELSE LET n == nodes[node]
           line ==
             CASE n.type = "DOCTYPE" -> "<!DOCTYPE " \o n.name \o ">\n"
               [] n.type = "ELEMENT" ->
                    "<" \o print_ns(n.ns) \o n.name \o ">\n"
                      \o print_attrs(qsort(n.attrs), depth + 1)
               [] n.type = "CHARACTER" -> "\"" \o n.content \o "\"\n"
               [] n.type = "COMMENT" -> "<!-- " \o n.content \o " -->\n"
       IN indent(depth) \o line
            \o html5lib_document(nodes, n.child, depth + 1)
            \o html5lib_document(nodes, n.next, depth)

(* --------------------------- initial state ---------------------------- *)

\* The insertion modes, in the order of the token handler's switch.
Modes ==
  <<"INITIAL", "BEFORE_HTML", "BEFORE_HEAD", "IN_HEAD", "IN_HEAD_NOSCRIPT",
    "AFTER_HEAD", "IN_BODY", "IN_TABLE", "IN_CAPTION", "IN_COLUMN_GROUP",
    "IN_TABLE_BODY", "IN_ROW", "IN_CELL", "IN_SELECT", "IN_SELECT_IN_TABLE",
    "IN_FOREIGN_CONTENT", "AFTER_BODY", "IN_FRAMESET", "AFTER_FRAMESET",
    "AFTER_AFTER_BODY", "AFTER_AFTER_FRAMESET", "GENERIC_RCDATA",
    "SCRIPT_COLLECT_CHARACTERS">>

NoOp == [op |-> "create", args |-> <<>>, log |-> <<>>]

\* The treebuilder as hubbub_treebuilder_create returns it: the context is
\* zeroed, the mode is INITIAL, the stack has one chunk and frame 0 has
\* type 0 (its ns and node are not written).
Constructed ==
  /\ tree_handler = FALSE
  /\ document = NULL
  /\ head_element = NULL
  /\ form_element = NULL
  /\ mode = "INITIAL"
  /\ element_stack = GrownStack(<<>>, 0, ELEMENT_STACK_CHUNK)
  /\ stack_alloc = ELEMENT_STACK_CHUNK
  /\ current_node = 0
  /\ current_table = 0
  /\ heap = EmptyHeap
  /\ formatting_list = NULL
  /\ formatting_list_end = NULL
  /\ in_table_foster = FALSE
  /\ collect = [mode |-> "INITIAL", type |-> 0, node |-> NULL,
                string |-> [off |-> 0, len |-> 0]]
  /\ content_model = "PCDATA"
  /\ input_buffer = NULL
  /\ input_buffer_len = 0
  /\ buffer_handler = NULL
  /\ buffer_pw = NULL
  /\ error_handler = NULL
  /\ error_pw = NULL
  /\ pbuffer = NULL
  /\ Document = <<>>
  /\ failed = FALSE
  /\ destroyed = FALSE
  /\ last = NoOp
  /\ pc = "idle"
  /\ token = NULL
  /\ reprocess = FALSE
  /\ calls = <<>>

\* The tokeniser before a treebuilder is made for it, and with the two
\* callbacks of the treebuilder registered.
Unregistered ==
  [token_handler |-> [handler |-> "NULL", pw |-> NULL],
   buffer_handler |-> [handler |-> "NULL", pw |-> NULL]]

Registered ==
  [token_handler |-> [handler |-> "hubbub_treebuilder_token_handler",
                      pw |-> Self],
   buffer_handler |-> [handler |-> "hubbub_treebuilder_buffer_handler",
                       pw |-> Self]]

Init == Constructed /\ tokeniser = Registered /\ made = "yes"

\* The state before hubbub_treebuilder_create is called: the fields are
\* those the call will set up.
InitCreate == Constructed /\ tokeniser = Unregistered /\ made = "no"

(* ------------------------------- inputs ------------------------------- *)

Tag(ns, name) == [ns |-> ns, name |-> name]

html_tag == Tag(HUBBUB_NS_HTML, <<104, 116, 109, 108>>)        \* html
table_tag == Tag(HUBBUB_NS_HTML, <<116, 97, 98, 108, 101>>)    \* table
td_tag == Tag(HUBBUB_NS_HTML, <<84, 68>>)                      \* TD
b_tag == Tag(HUBBUB_NS_HTML, <<98>>)                           \* b
p_tag == Tag(HUBBUB_NS_HTML, <<112>>)                          \* p
x_tag == Tag(HUBBUB_NS_SVG, <<120>>)                           \* x (svg)

\* Where the tokeniser's buffer may be, and how long.
BufferSet == 1..MaxBuffers
LenSet == {0, MaxLen}

\* The nodes the sink makes (node_t): a doctype, a comment, a text node,
\* or an element with up to two attributes given in either order.
AttrLists ==
  LET attr(name) == [ns |-> HUBBUB_NS_NULL, name |-> name, value |-> "v"]
  IN {<<>>, <<attr("a")>>, <<attr("a"), attr("b")>>, <<attr("b"), attr("a")>>}

NodeData ==
  {[type |-> "DOCTYPE", name |-> "html"]}
    \cup {[type |-> "COMMENT", content |-> "c"]}
    \cup {[type |-> "CHARACTER", content |-> "t"]}
    \cup {[type |-> "ELEMENT", ns |-> ns, name |-> "b", attrs |-> attrs] :
            ns \in {HUBBUB_NS_HTML, HUBBUB_NS_SVG}, attrs \in AttrLists}

\* A node with its links: child and next are indexes into the tree, or NULL.
Linked(data, child, next) ==
  [k \in DOMAIN data \cup {"child", "next"} |->
     IF k = "child" THEN child ELSE IF k = "next" THEN next ELSE data[k]]

\* The trees of up to MaxTreeNodes nodes below the document: node 1 is the
\* document's first child, node k + 1 the first child or the next sibling of
\* node k.
RECURSIVE TreesOf(_)
TreesOf(n) ==
  IF n = 1 THEN {<<Linked(d, NULL, NULL)>> : d \in NodeData}
  ELSE LET Shift(t) == [k \in 1..Len(t) |->
                          [t[k] EXCEPT !.child = IF @ = NULL THEN NULL ELSE @ + 1,
                                       !.next = IF @ = NULL THEN NULL ELSE @ + 1]]
       IN UNION {{<<Linked(d, 2, NULL)>> \o Shift(t),
                  <<Linked(d, NULL, 2)>> \o Shift(t)} :
                    d \in NodeData, t \in TreesOf(n - 1)}

Trees == UNION {TreesOf(n) : n \in 1..MaxTreeNodes}

\* The tags the tokeniser delivers to the stack and list operations.
TagSet == {html_tag, table_tag, td_tag, b_tag, p_tag}

\* The tags it delivers where the list is at stake: a table, a marker, a
\* formatting element.
ListTagSet == {table_tag, td_tag, b_tag}

\* The tags it delivers where only the references matter.
SinkTagSet == {b_tag, x_tag}

\* The element types of the tags, and UNKNOWN.
TypeSet == {HTML, TABLE, TD, B, P, UNKNOWN}

\* The types the callers name in element_stack_pop_until.
UntilSet == {HTML, TABLE, B}

\* The same, and the type of every element whose name is not in the map.
StackUntilSet == UntilSet \cup {UNKNOWN}

\* The tags delivered where the stack is alone: one has a name not in the map.
StackTagSet == TagSet \cup {x_tag}

\* The types they name in close_implied_end_tags: one of the implied set,
\* one outside it, and none (UNKNOWN).
ExceptSet == {P, B, UNKNOWN}

\* The tags of the nodes the handlers push themselves.
PushTagSet == {table_tag, b_tag, x_tag}

\* The handles of those nodes: two that the sink has made after the root.
PushNodeSet == {DocumentNode + 2, DocumentNode + 3}

\* The list holds formatting elements and markers (scoping elements other
\* than HTML and TABLE).
ListTypes == {t \in TypeSet : InvalidatesEntries(t)}

\* What the handlers put into an entry where the list is alone: the type,
\* the node and the stack index.
ListDetails ==
  {<<B, DocumentNode + 2, 1>>, <<TD, DocumentNode + 3, 2>>,
   <<B, DocumentNode + 3, 0>>}

\* The namespaces an unwritten details.ns may hold.
NsSet == {HUBBUB_NS_NULL, HUBBUB_NS_SVG}

StringSet == {[off |-> 0, len |-> 1]}

\* The tags of the table modes and of the body.
tr_tag == Tag(HUBBUB_NS_HTML, <<116, 114>>)                       \* tr
tbody_tag == Tag(HUBBUB_NS_HTML, <<116, 98, 111, 100, 121>>)      \* tbody
caption_tag == Tag(HUBBUB_NS_HTML, <<99, 97, 112, 116, 105, 111, 110>>)   \* caption
body_tag == Tag(HUBBUB_NS_HTML, <<98, 111, 100, 121>>)               \* body
title_tag == Tag(HUBBUB_NS_HTML, <<116, 105, 116, 108, 101>>)        \* title
style_tag == Tag(HUBBUB_NS_HTML, <<115, 116, 121, 108, 101>>)        \* style

\* The tags delivered where the insertion mode is at stake.
ModeTagSet ==
  {table_tag, td_tag, tr_tag, tbody_tag, caption_tag, body_tag, b_tag}

\* The tags whose content is collected as (R)CDATA.
RcdataTagSet == {title_tag, style_tag}

\* A name with its letters in lower case, and with every other byte so.
LowerCased(name) ==
  [k \in 1..Len(name) |->
     IF name[k] >= 65 /\ name[k] <= 90 THEN name[k] + 32 ELSE name[k]]

MixedCased(name) ==
  [k \in 1..Len(name) |-> IF k % 2 = 1 THEN LowerCased(name)[k] ELSE name[k]]

\* The tag names the tokeniser delivers: every name of name_type_map in
\* three casings, cut by a byte, and with a byte more.
TagNameSet ==
  UNION {{name_type_map[k].name,
          LowerCased(name_type_map[k].name),
          MixedCased(name_type_map[k].name),
          SubSeq(name_type_map[k].name, 1, Len(name_type_map[k].name) - 1),
          LowerCased(name_type_map[k].name) \o <<120>>} :
            k \in 1..Len(name_type_map)}

\* The attribute names the tokeniser delivers on a foreign element.
AttrNameSet ==
  {<<120, 108, 105, 110, 107, 58, 104, 114, 101, 102>>,   \* xlink:href
   <<120, 108, 105, 110, 107, 58, 97, 99, 116, 117, 97, 116, 101>>,   \* xlink:actuate
   <<120, 108, 105, 110, 107, 58, 104, 114, 101, 102, 108, 97, 110, 103>>,   \* xlink:hreflang
   <<120, 108, 105, 110, 107, 58, 97>>,   \* xlink:a
   <<120, 109, 108, 58, 108, 97, 110, 103>>,   \* xml:lang
   <<120, 109, 108, 58, 115, 112, 97, 99, 101>>,   \* xml:space
   <<120, 109, 108, 58, 105, 100, 120, 120>>,   \* xml:idxx
   <<120, 109, 108, 110, 115>>,   \* xmlns
   <<120, 109, 108, 110, 115, 58, 120, 108, 105, 110, 107>>,   \* xmlns:xlink
   <<120, 109, 108, 110, 115, 58, 120>>,   \* xmlns:x
   <<104, 114, 101, 102>>   \* href
  }

\* The tags of up to MaxAttrs attributes: the buffer holds their names one
\* after the other, each attribute names its bytes in it.
RECURSIVE Concat(_)
Concat(seqs) == IF seqs = <<>> THEN <<>> ELSE Head(seqs) \o Concat(Tail(seqs))

AttributesOf(names) ==
  [i \in 1..Len(names) |->
     [ns |-> HUBBUB_NS_NULL,
      name |-> [off |-> Len(Concat(SubSeq(names, 1, i - 1))),
                len |-> Len(names[i])]]]

AttrNameSeqs == UNION {[1..n -> AttrNameSet] : n \in 1..MaxAttrs}

\* What the input buffer may hold: whitespace of two kinds and a letter.
ByteSeqs == [1..MaxBytes -> {12, 32, 97}]

\* The character tokens: a run of the buffer.
CharTokens == [off : 0..MaxBytes, len : 0..MaxBytes]

\* The outcomes of the iterations of reconstruct's loop.
AllOk == [clone_ok |-> TRUE, append_ok |-> TRUE, alloc_ok |-> TRUE]

Failures(o) ==
  (IF o.clone_ok THEN 0 ELSE 1) + (IF o.append_ok THEN 0 ELSE 1)
    + (IF o.alloc_ok THEN 0 ELSE 1)

RECURSIVE SumFailures(_, _)
SumFailures(o, k) == IF k = 0 THEN 0 ELSE Failures(o[k]) + SumFailures(o, k - 1)

OutcomeSeqs ==
  {o \in [1..MaxEntries -> Outcome] : SumFailures(o, MaxEntries) <= MaxFaults}

(* ------------------------------ actions ------------------------------- *)

\* The treebuilder exists and no assertion has stopped the process.
Live == made = "yes" /\ ~destroyed /\ ~failed

\* The token handler lets a token through.
Parsing == Live /\ pc = "idle" /\ tree_handler /\ document # NULL

\* The document has its root: the helpers of the later modes run.
InTree == Parsing /\ element_stack[0].type = HTML

\* The model's budget: the failures of the operation, the handles the sink
\* has given out, and the depth of the stack.
WithinDepth(m, depth) ==
  /\ m.faults <= MaxFaults
  /\ ~m.spent
  /\ Signed(m.current_node) <= depth

Within(m) == WithinDepth(m, MaxDepth)

Op(name, args, m) == [op |-> name, args |-> args, log |-> m.log]

Idle == UNCHANGED <<destroyed, tokeniser, made, pc, token, reprocess, calls>>

\* The client's buffer handler (test/tree2.c): it keeps the base it is told.
ClientBufferHandler(m, buffer, len, pw) ==
  [m EXCEPT !.pbuffer = buffer,
            !.log = Append(@, Call("buffer_handler", TRUE, buffer, len, pw))]

\* A call through a function pointer: through NULL it stops the process.
CallBufferHandler(m) ==
  IF m.buffer_handler = NULL THEN [m EXCEPT !.failed = TRUE]
  ELSE ClientBufferHandler(m, m.input_buffer, m.input_buffer_len, m.buffer_pw)

\* params is <<>> for a NULL pointer, and otherwise holds the member of the
\* union that the option reads: <<handler, pw>>, <<tree_handler>> or
\* <<document_node>>.  The switch has no default case.
hubbub_treebuilder_setopt(m, treebuilder, type, params) ==
  IF treebuilder = NULL \/ params = <<>>
    THEN [m |-> m, ret |-> "HUBBUB_BADPARM"]
    ELSE LET m1 ==
               CASE type = "BUFFER_HANDLER" ->
                      CallBufferHandler([m EXCEPT !.buffer_handler = params[1],
                                                  !.buffer_pw = params[2]])
                 [] type = "ERROR_HANDLER" ->
                      [m EXCEPT !.error_handler = params[1],
                                !.error_pw = params[2]]
                 [] type = "TREE_HANDLER" -> [m EXCEPT !.tree_handler = params[1]]
                 [] type = "DOCUMENT_NODE" -> [m EXCEPT !.document = params[1]]
                 [] OTHER -> m
         IN [m |-> m1,
             ret |-> IF m1.failed THEN "NO_RETURN" ELSE "HUBBUB_OK"]

\* A faulty variant of hubbub_treebuilder_buffer_handler: the client is not
\* told.
buffer_handler_record_only(m, data, len) ==
  [m EXCEPT !.input_buffer = data, !.input_buffer_len = len]

\* hubbub_treebuilder_buffer_handler: the tokeniser's buffer has moved.
hubbub_treebuilder_buffer_handler(m, data, len) ==
  LET m1 == [m EXCEPT !.input_buffer = data, !.input_buffer_len = len]
  IN IF m1.buffer_handler # NULL THEN CallBufferHandler(m1) ELSE m1

SetoptTreeHandler ==
  /\ Live /\ pc = "idle" /\ ~tree_handler
  /\ \E params \in {<<TRUE>>} :
       LET r == hubbub_treebuilder_setopt(Machine, Self, "TREE_HANDLER", params)
       IN Becomes(r.m)
            /\ last' = Op("setopt", <<Self, "TREE_HANDLER", params, r.ret>>, r.m)
  /\ Idle

SetoptDocumentNode ==
  /\ Live /\ pc = "idle" /\ document = NULL
  /\ \E params \in {<<DocumentNode>>} :
       LET r == hubbub_treebuilder_setopt(Machine, Self, "DOCUMENT_NODE", params)
       IN Becomes(r.m)
            /\ last' = Op("setopt", <<Self, "DOCUMENT_NODE", params, r.ret>>, r.m)
  /\ Idle

\* The option types and, for each, the values a client passes.
OptTypes ==
  {"BUFFER_HANDLER", "ERROR_HANDLER", "TREE_HANDLER", "DOCUMENT_NODE"}

OptParams(type) ==
  {<<>>} \cup
    (CASE type = "TREE_HANDLER" -> {<<TRUE>>, <<FALSE>>}
       [] type = "DOCUMENT_NODE" -> {<<NULL>>, <<DocumentNode>>}
       [] OTHER -> {<<h, pw>> : h \in {NULL, ClientFn}, pw \in {NULL, ClientPw}})

\* Any setopt call a client can make while no token is being handled.
Setopt ==
  /\ Live /\ pc = "idle"
  /\ \E treebuilder \in {NULL, Self}, type \in OptTypes \cup {"OTHER"} :
       \E params \in OptParams(type) :
         LET r == hubbub_treebuilder_setopt(Machine, treebuilder, type, params)
         IN Becomes(r.m)
              /\ last' = Op("setopt", <<treebuilder, type, params, r.ret>>, r.m)
  /\ Idle

\* The tokeniser tells the treebuilder that its buffer has moved.
BufferHandlerOf(buffers, lens) ==
  /\ Live /\ pc = "idle"
  /\ \E data \in buffers, len \in lens :
       LET m == hubbub_treebuilder_buffer_handler(Machine, data, len)
       IN Becomes(m) /\ last' = Op("buffer_handler", <<data, len>>, m)
  /\ Idle

BufferHandler == BufferHandlerOf(BufferSet, LenSet)

\* The BEFORE_HTML handler: it creates the html element, appends it to the
\* document and writes it to frame 0 (it cannot use element_stack_push),
\* keeping one reference; the mode becomes BEFORE_HEAD.
handle_before_html(m) ==
  LET c == SinkCreate(m, "create_element", NULL, TRUE, Wild)
      a == SinkAppendChild(c.m, m.document, c.r, TRUE, Wild)
      m1 == SinkUnref(a.m, c.r)
  IN [m1 EXCEPT !.element_stack[0] = Frame(HUBBUB_NS_HTML, HTML, a.r),
                !.mode = "BEFORE_HEAD"]

HandleBeforeHtml ==
  /\ Parsing /\ element_stack[0].type # HTML /\ current_node = 0
  /\ LET m == handle_before_html(Machine)
     IN Within(m) /\ Becomes(m) /\ last' = Op("handle_before_html", <<>>, m)
  /\ Idle

\* The outcomes where the sink succeeds: only the growth of the stack fails.
PushOutcomes(m) == {o \in Outcomes(m) : o.create_ok /\ o.append_ok}

InsertElementOf(tags, outcomes, depth) ==
  /\ InTree
  /\ \E tag \in tags, o \in outcomes :
       LET m == insert_element(Machine, tag, o)
       IN /\ WithinDepth(m, depth) /\ Becomes(m)
          /\ last' = Op("insert_element", <<tag>>, m)
  /\ Idle

InsertElement == InsertElementOf(ListTagSet, PushOutcomes(Machine), MaxDepth)

\* A handler pushes a node it holds: the tag's namespace and type, the
\* node's handle, and whether realloc finds memory.
ElementStackPush ==
  /\ InTree
  /\ \E tag \in PushTagSet, node \in PushNodeSet, alloc_ok \in BOOLEAN :
       LET type == element_type_from_name(tag.name)
           p == element_stack_push(Machine, tag.ns, type, node, alloc_ok)
       IN /\ WithinDepth(p.m, MaxStackDepth) /\ Becomes(p.m)
          /\ last' = Op("element_stack_push", <<tag.ns, type, node, p.ret>>, p.m)
  /\ Idle

\* A table mode sets in_table_foster before it hands an unexpected token to
\* the in-body rules, and clears it afterwards.
SetInTableFoster ==
  /\ InTree
  /\ in_table_foster \/ current_table # 0
  /\ Becomes([Machine EXCEPT !.in_table_foster = ~@])
  /\ last' = Op("in_table_foster", <<~in_table_foster>>, Machine)
  /\ Idle

InsertElementNoPush ==
  /\ InTree
  /\ \E tag \in SinkTagSet, o \in Outcomes(Machine) :
       LET m == insert_element_no_push(Machine, tag, o)
       IN /\ Within(m) /\ Becomes(m)
          /\ last' = Op("insert_element_no_push", <<tag>>, m)
  /\ Idle

AppendText ==
  /\ InTree
  /\ \E string \in StringSet, o \in Outcomes(Machine) :
       LET m == append_text(Machine, string, o)
       IN /\ Within(m) /\ Becomes(m)
          /\ last' = Op("append_text", <<string>>, m)
  /\ Idle

\* The outcomes of the sink calls of the call, one when it makes none.
SinkOutcomesFor(bytes, tok, insert) ==
  LET c == LeadingWhitespace(BytesFrom(bytes, tok.off), tok.len)
  IN IF c # tok.len /\ c > 0 /\ insert THEN Outcomes(Machine)
     ELSE {[create_ok |-> TRUE, append_ok |-> TRUE, alloc_ok |-> TRUE,
            node |-> Wild, appended |-> Wild]}

\* A mode handler passes on a character token of the tokeniser.
ProcessCharactersExpectWhitespace ==
  /\ InTree /\ input_buffer # NULL
  /\ \E bytes \in ByteSeqs, tok \in CharTokens, insert \in BOOLEAN :
       /\ tok.off + tok.len <= Len(bytes)
       /\ \E o \in SinkOutcomesFor(bytes, tok, insert) :
          LET r == process_characters_expect_whitespace(Machine, bytes, tok,
                                                        insert, o)
          IN /\ Within(r.m) /\ Becomes(r.m)
             /\ last' = Op("process_characters_expect_whitespace",
                           <<bytes, tok, insert, r.ret, r.token, r.text>>, r.m)
  /\ Idle

\* A handler asks for the type of a tag name: name is the bytes the
\* hubbub_string names.
ElementTypeFromName ==
  /\ Live /\ pc = "idle"
  /\ \E name \in TagNameSet :
       last' = Op("element_type_from_name",
                  <<name, element_type_from_name(name)>>, Machine)
  /\ Becomes(Machine)
  /\ Idle

ResetInsertionMode ==
  /\ InTree /\ mode # "GENERIC_RCDATA"
  /\ LET m == reset_insertion_mode(Machine)
     IN Becomes(m) /\ last' = Op("reset_insertion_mode", <<>>, m)
  /\ Idle

\* A handler meets a start tag whose content is collected.
ParseGenericRcdata ==
  /\ InTree /\ mode # "GENERIC_RCDATA"
  /\ \E tag \in RcdataTagSet, rcdata \in BOOLEAN, o \in Outcomes(Machine) :
       LET m == parse_generic_rcdata(Machine, tag, rcdata, o)
       IN /\ Within(m) /\ Becomes(m)
          /\ last' = Op("parse_generic_rcdata", <<tag, rcdata>>, m)
  /\ Idle

\* The GENERIC_RCDATA mode: a character token adds its bytes to the
\* collected string; the end tag puts the saved mode back.
HandleGenericRcdata ==
  /\ InTree /\ mode = "GENERIC_RCDATA"
  /\ \/ /\ collect.string.len < MaxBytes
        /\ Becomes([Machine EXCEPT !.collect.string.len = @ + 1])
        /\ last' = Op("handle_generic_rcdata", <<"CHARACTER">>, Machine)
     \/ /\ Becomes([Machine EXCEPT !.mode = collect.mode,
                                   !.content_model = "PCDATA"])
        /\ last' = Op("handle_generic_rcdata", <<"END_TAG">>, Machine)
  /\ Idle

\* A handler adjusts the attributes of a start tag in foreign content.
AdjustForeignAttributes ==
  /\ Live /\ pc = "idle" /\ input_buffer # NULL
  /\ \E names \in AttrNameSeqs :
       LET bytes == Concat(names)
           attributes == AttributesOf(names)
       IN last' = Op("adjust_foreign_attributes",
                     <<bytes, attributes,
                       adjust_foreign_attributes(bytes, attributes)>>,
                     Machine)
  /\ Becomes(Machine)
  /\ Idle

\* The parents the handlers pass: the document, or the current node.
ProcessCommentAppend ==
  /\ Parsing
  /\ \E tok \in StringSet, o \in Outcomes(Machine),
        parent \in {document} \cup
                   (IF InTree THEN {element_stack[current_node].node} ELSE {}) :
       LET m == process_comment_append(Machine, tok, parent, o)
       IN /\ Within(m) /\ Becomes(m)
          /\ last' = Op("process_comment_append", <<tok, parent>>, m)
  /\ Idle

ElementStackPop ==
  /\ InTree
  /\ LET p == element_stack_pop(Machine)
     IN /\ Becomes(p.m)
        /\ last' = Op("element_stack_pop", <<p.ns, p.type, p.node>>, p.m)
  /\ Idle

ElementStackPopUntilOf(types) ==
  /\ InTree
  /\ \E type \in types :
       LET p == element_stack_pop_until(Machine, type)
       IN Becomes(p.m) /\ last' = Op("element_stack_pop_until", <<type>>, p.m)
  /\ Idle


CloseImpliedEndTags ==
  /\ InTree
  /\ \E except \in ExceptSet :
       LET m == close_implied_end_tags(Machine, except)
       IN Becomes(m) /\ last' = Op("close_implied_end_tags", <<except>>, m)
  /\ Idle

\* The handlers append the entry of an open element: its type, its node
\* (on which they take a reference) and the index of its frame.
FormattingListAppend ==
  /\ InTree
  /\ Cardinality(DOMAIN heap) < MaxEntries
  /\ \E k \in 1..Signed(current_node), alloc_ok \in BOOLEAN, old_ns \in NsSet :
       /\ element_stack[k].type \in ListTypes
       /\ alloc_ok \/ MaxFaults > 0
       /\ LET r == formatting_list_append(Machine, element_stack[k].type,
                     element_stack[k].node, k, alloc_ok, old_ns)
          IN /\ Within(r.m) /\ Becomes(r.m)
             /\ last' = Op("formatting_list_append", <<k, r.ret>>, r.m)
  /\ Idle

\* The four list functions as the handlers call them, on any entry of the
\* list and with any details.
FormattingListAppendDetails ==
  /\ Live /\ pc = "idle"
  /\ Cardinality(DOMAIN heap) < MaxListEntries
  /\ \E d \in ListDetails, alloc_ok \in BOOLEAN :
       LET r == formatting_list_append(Machine, d[1], d[2], d[3], alloc_ok,
                                       HUBBUB_NS_NULL)
       IN /\ Becomes(r.m)
          /\ last' = Op("formatting_list_append", <<d, r.ret>>, r.m)
  /\ Idle

\* prev and next are neighbours, or the one that is there is the end of the
\* list where the other is missing.
Neighbours(prev, next) ==
  /\ prev = NULL => next = formatting_list
  /\ next = NULL => prev = formatting_list_end
  /\ (prev # NULL /\ next # NULL) => heap[prev].next = next

FormattingListInsert ==
  /\ Live /\ pc = "idle"
  /\ Cardinality(DOMAIN heap) < MaxListEntries
  /\ \E prev \in {NULL} \cup DOMAIN heap, next \in {NULL} \cup DOMAIN heap,
        d \in ListDetails, alloc_ok \in BOOLEAN :
       /\ Neighbours(prev, next)
       /\ LET r == formatting_list_insert(Machine, prev, next, d[1], d[2],
                                          d[3], alloc_ok, HUBBUB_NS_NULL)
          IN /\ Becomes(r.m)
             /\ last' = Op("formatting_list_insert",
                           <<prev, next, d, r.ret>>, r.m)
  /\ Idle

FormattingListRemove ==
  /\ Live /\ pc = "idle"
  /\ \E entry \in DOMAIN heap :
       LET r == formatting_list_remove(Machine, entry)
       IN /\ Becomes(r.m)
          /\ last' = Op("formatting_list_remove",
                        <<entry, <<r.type, r.node, r.stack_index>>, r.ret>>, r.m)
  /\ Idle

FormattingListReplace ==
  /\ Live /\ pc = "idle"
  /\ \E entry \in DOMAIN heap, d \in ListDetails :
       LET r == formatting_list_replace(Machine, entry, d[1], d[2], d[3])
       IN /\ Becomes(r.m)
          /\ last' = Op("formatting_list_replace",
                        <<entry, d, <<r.otype, r.onode, r.ostack_index>>, r.ret>>,
                        r.m)
  /\ Idle

ReconstructActiveFormattingList ==
  /\ InTree
  /\ \E o \in OutcomeSeqs :
       LET m == reconstruct_active_formatting_list(Machine, o)
       IN /\ Within(m) /\ Becomes(m)
          /\ last' = Op("reconstruct_active_formatting_list", <<>>, m)
  /\ Idle

ClearActiveFormattingListToMarker ==
  /\ InTree
  /\ LET m == clear_active_formatting_list_to_marker(Machine)
     IN /\ Becomes(m)
        /\ last' = Op("clear_active_formatting_list_to_marker", <<>>, m)
  /\ Idle

\* A handler keeps the element it has just inserted as the head element:
\* the handle of the current node, with a reference of its own.
KeepHeadElement ==
  /\ InTree /\ head_element = NULL /\ Signed(current_node) >= 1
  /\ LET m == [Machine EXCEPT !.head_element = element_stack[current_node].node]
     IN Becomes(m) /\ last' = Op("keep_head_element", <<>>, m)
  /\ Idle

\* The same for the form element.
KeepFormElement ==
  /\ InTree /\ form_element = NULL /\ Signed(current_node) >= 1
  /\ LET m == [Machine EXCEPT !.form_element = element_stack[current_node].node]
     IN Becomes(m) /\ last' = Op("keep_form_element", <<>>, m)
  /\ Idle

\* A caller asks whether an element is in scope (the result is in last).
ElementInScope ==
  /\ InTree
  /\ \E type \in TypeSet, in_table \in BOOLEAN :
       last' = [op |-> "element_in_scope",
                args |-> <<type, in_table,
                           element_in_scope(Machine, type, in_table)>>,
                log |-> <<>>]
  /\ Becomes(Machine)
  /\ Idle

\* hubbub_tokeniser_setopt for a handler option: it stores the handler and
\* its pw, or fails and stores nothing.
hubbub_tokeniser_setopt(t, type, params, ok) ==
  IF ok THEN [t |-> [t EXCEPT ![type] = params], ret |-> "HUBBUB_OK"]
  ELSE [t |-> t, ret |-> "HUBBUB_BADPARM"]

\* The client's handler as the tokeniser holds it.
ClientHandler(handler, pw) ==
  [handler |-> IF handler = NULL THEN "NULL" ELSE "client", pw |-> pw]

\* The two setopt calls of hubbub_treebuilder_destroy: the client's buffer
\* handler goes back to the tokeniser, the token handler is cleared; the
\* results are not looked at.
destroy_deregister(t, m, oks) ==
  LET b == hubbub_tokeniser_setopt(t, "buffer_handler",
             ClientHandler(m.buffer_handler, m.buffer_pw), oks[1])
      k == hubbub_tokeniser_setopt(b.t, "token_handler",
             [handler |-> "NULL", pw |-> NULL], oks[2])
  IN k.t

DestroyOf(results) ==
  /\ Live /\ pc = "idle"
  /\ \E oks \in results :
       LET m == hubbub_treebuilder_destroy(Machine)
       IN /\ Becomes(m) /\ last' = Op("destroy", <<oks>>, m)
          /\ tokeniser' = destroy_deregister(tokeniser, Machine, oks)
  /\ destroyed' = TRUE
  /\ UNCHANGED <<made, pc, token, reprocess, calls>>

\* Teardown with a tokeniser that takes both options.
Destroy == DestroyOf({<<TRUE, TRUE>>})

\* What can fail in hubbub_treebuilder_create: the arguments, the two
\* allocations, the two setopt calls.
CreateOutcomes ==
  [args_ok : BOOLEAN, tb_ok : BOOLEAN, stack_ok : BOOLEAN,
   token_ok : BOOLEAN, buffer_ok : BOOLEAN]

hubbub_treebuilder_create(t, o) ==
  IF ~o.args_ok \/ ~o.tb_ok \/ ~o.stack_ok THEN [t |-> t, ret |-> NULL]
  ELSE
    LET k == hubbub_tokeniser_setopt(t, "token_handler",
               Registered.token_handler, o.token_ok)
        b == hubbub_tokeniser_setopt(k.t, "buffer_handler",
               Registered.buffer_handler, o.buffer_ok)
    IN IF k.ret # "HUBBUB_OK" THEN [t |-> k.t, ret |-> NULL]
       ELSE IF b.ret # "HUBBUB_OK" THEN [t |-> b.t, ret |-> NULL]
       ELSE [t |-> b.t, ret |-> Self]

Create ==
  /\ made = "no"
  /\ \E o \in CreateOutcomes :
       LET r == hubbub_treebuilder_create(tokeniser, o)
       IN /\ tokeniser' = r.t
          /\ made' = IF r.ret = NULL THEN "null" ELSE "yes"
          /\ last' = [op |-> "create", args |-> <<o, r.ret>>, log |-> <<>>]
  /\ Becomes(Machine)
  /\ UNCHANGED <<destroyed, pc, token, reprocess, calls>>

(* --------------------------- token handler ---------------------------- *)

\* The tokens the tokeniser emits (the dispatcher does not read them).
TokenSet == {"START_TAG", "CHARACTER"}

\* The handlers of the modes, in the order of the switch.
Handlers ==
  <<"handle_initial", "handle_before_html", "handle_before_head",
    "handle_in_head", "handle_in_head_noscript", "handle_after_head",
    "handle_in_body", "handle_in_table", "handle_in_caption",
    "handle_in_column_group", "handle_in_table_body", "handle_in_row",
    "handle_in_cell", "handle_in_select", "handle_in_select_in_table",
    "handle_in_foreign_content", "handle_after_body", "handle_in_frameset",
    "handle_after_frameset", "handle_after_after_body",
    "handle_after_after_frameset", "handle_generic_rcdata",
    "handle_script_collect_characters">>

\* A faulty variant of HandlerOf: the mode read once, before the loop.
HandlerOfInitial(md) == Handlers[1]

\* switch (treebuilder->context.mode): the handler the loop calls.
HandlerOf(md) ==
  Handlers[CHOOSE k \in 1..Len(Modes) : Modes[k] = md]

\* What a call of a mode handler does to the dispatcher: the mode it leaves
\* in context.mode and the value it returns.
HandlerResults ==
  [mode : {Modes[k] : k \in 1..Len(Modes)}, reprocess : BOOLEAN]

\* A faulty variant of TokenHandlerEnter: only the document node is looked
\* at.
TokenHandlerEnterDocumentOnly ==
  /\ Live /\ pc = "idle"
  /\ \E tok \in TokenSet :
       \/ /\ document = NULL
          /\ last' = [op |-> "token_handler", args |-> <<tok, "ignored">>,
                      log |-> <<>>]
          /\ UNCHANGED <<pc, token, reprocess, calls>>
       \/ /\ document # NULL
          /\ Signed(current_node) >= 0
          /\ pc' = "loop" /\ token' = tok /\ reprocess' = TRUE
          /\ calls' = <<>>
          /\ last' = [op |-> "token_handler", args |-> <<tok, "entered">>,
                      log |-> <<>>]
  /\ Becomes(Machine)
  /\ UNCHANGED <<destroyed, tokeniser, made>>

\* Entry: the token is dropped while the document node or the tree handler
\* is missing; otherwise reprocess = true and the loop starts.
TokenHandlerEnter ==
  /\ Live /\ pc = "idle"
  /\ \E tok \in TokenSet :
       \/ /\ document = NULL \/ ~tree_handler
          /\ last' = [op |-> "token_handler", args |-> <<tok, "ignored">>,
                      log |-> <<>>]
          /\ UNCHANGED <<pc, token, reprocess, calls>>
       \/ /\ document # NULL /\ tree_handler
          /\ Signed(current_node) >= 0
          /\ pc' = "loop" /\ token' = tok /\ reprocess' = TRUE
          /\ calls' = <<>>
          /\ last' = [op |-> "token_handler", args |-> <<tok, "entered">>,
                      log |-> <<>>]
  /\ Becomes(Machine)
  /\ UNCHANGED <<destroyed, tokeniser, made>>

\* One iteration of while (reprocess): the handler of the current mode is
\* called with the token; its return value is the new reprocess.
TokenHandlerDispatch ==
  /\ pc = "loop" /\ reprocess
  /\ \E r \in HandlerResults :
       /\ r.reprocess => Len(calls) + 1 < MaxDispatch
       /\ Becomes([Machine EXCEPT !.mode = r.mode])
       /\ reprocess' = r.reprocess
       /\ calls' = Append(calls, r.reprocess)
       /\ last' = [op |-> HandlerOf(mode), args |-> <<token>>, log |-> <<>>]
  /\ UNCHANGED <<destroyed, tokeniser, made, pc, token>>

\* The loop ends when reprocess is false: the function returns.
TokenHandlerReturn ==
  /\ pc = "loop" /\ ~reprocess
  /\ pc' = "idle"
  /\ last' = [op |-> "token_handler", args |-> <<token, "returned">>,
              log |-> <<>>]
  /\ Becomes(Machine)
  /\ UNCHANGED <<destroyed, tokeniser, made, token, reprocess, calls>>

(* --------------------------- specifications --------------------------- *)

\* The stack of open elements and the list of active formatting elements.
Next ==
  \/ SetoptTreeHandler
  \/ SetoptDocumentNode
  \/ HandleBeforeHtml
  \/ InsertElement
  \/ ElementStackPop
  \/ FormattingListAppend
  \/ ReconstructActiveFormattingList
  \/ ClearActiveFormattingListToMarker

Spec == Init /\ [][Next]_vars

\* The stack of open elements alone.
NextStack ==
  \/ SetoptTreeHandler
  \/ SetoptDocumentNode
  \/ HandleBeforeHtml
  \/ InsertElementOf(StackTagSet, PushOutcomes(Machine), MaxStackDepth)
  \/ ElementStackPop
  \/ ElementStackPopUntilOf(StackUntilSet)
  \/ SetInTableFoster
  \/ CloseImpliedEndTags
  \/ ElementInScope

SpecStack == Init /\ [][NextStack]_vars

\* The helpers that call the sink, each call of which may fail.
NextSink ==
  \/ SetoptTreeHandler
  \/ SetoptDocumentNode
  \/ HandleBeforeHtml
  \/ InsertElementOf(SinkTagSet, Outcomes(Machine), MaxDepth)
  \/ InsertElementNoPush
  \/ AppendText
  \/ ProcessCommentAppend
  \/ ElementStackPop

SpecSink == Init /\ [][NextSink]_vars

\* Teardown, in every state the engine's holdings can be in.
NextTeardown ==
  \/ SetoptTreeHandler
  \/ SetoptDocumentNode
  \/ HandleBeforeHtml
  \/ InsertElementOf({b_tag}, PushOutcomes(Machine), MaxDepth)
  \/ ElementStackPop
  \/ FormattingListAppend
  \/ ReconstructActiveFormattingList
  \/ KeepHeadElement
  \/ KeepFormElement
  \/ Destroy

SpecTeardown == Init /\ [][NextTeardown]_vars

\* The pushes and pops of the handlers, with no sink call.
NextPush ==
  \/ SetoptTreeHandler
  \/ SetoptDocumentNode
  \/ HandleBeforeHtml
  \/ ElementStackPush
  \/ ElementStackPop

SpecPush == Init /\ [][NextPush]_vars

\* Teardown while the content of an element is being collected.
NextCollectTeardown ==
  \/ SetoptTreeHandler
  \/ SetoptDocumentNode
  \/ HandleBeforeHtml
  \/ InsertElementOf({b_tag}, PushOutcomes(Machine), MaxDepth)
  \/ ParseGenericRcdata
  \/ Destroy

SpecCollectTeardown == Init /\ [][NextCollectTeardown]_vars

\* The life of a treebuilder: made for a tokeniser, configured, torn down.
NextCreate ==
  \/ Create
  \/ Setopt
  \/ DestroyOf(BOOLEAN \X BOOLEAN)

SpecCreate == InitCreate /\ [][NextCreate]_vars

\* The list of active formatting elements alone.
NextList ==
  \/ FormattingListAppendDetails
  \/ FormattingListInsert
  \/ FormattingListRemove
  \/ FormattingListReplace

SpecList == Init /\ [][NextList]_vars

\* The token handler's loop, whatever the mode handlers do.
NextDispatch ==
  \/ SetoptTreeHandler
  \/ SetoptDocumentNode
  \/ TokenHandlerEnter
  \/ TokenHandlerDispatch
  \/ TokenHandlerReturn

SpecDispatch == Init /\ [][NextDispatch]_vars

\* The parser has run on the #data of a test case and the sink holds the
\* tree it has built.
ParseTestCase ==
  /\ Live /\ pc = "idle" /\ Document = <<>>
  /\ \E tree \in Trees :
       LET m == [Machine EXCEPT !.Document = tree]
       IN Becomes(m) /\ last' = Op("parse", <<>>, m)
  /\ Idle

\* The test driver at the end of a #document block: it prints the tree,
\* compares it with the block (expected) and clears the tree.
CompareTree ==
  /\ Live /\ pc = "idle" /\ Document # <<>>
  /\ LET buf == node_print(Document, 1, 0)
         expected == html5lib_document(Document, 1, 0)
         passed == (buf = expected)
         m == [Machine EXCEPT !.Document = <<>>]
     IN Becomes(m) /\ last' = Op("node_print", <<buf, passed>>, m)
  /\ Idle

\* The test driver: parse a case, print and compare its tree.
NextPrint ==
  \/ ParseTestCase
  \/ CompareTree

SpecPrint == Init /\ [][NextPrint]_vars

\* The character tokens of the modes that expect whitespace.
NextChars ==
  \/ SetoptTreeHandler
  \/ SetoptDocumentNode
  \/ BufferHandlerOf({1}, {MaxBytes})
  \/ HandleBeforeHtml
  \/ ProcessCharactersExpectWhitespace

SpecChars == Init /\ [][NextChars]_vars

\* The insertion mode and its reset from the stack.
NextModes ==
  \/ SetoptTreeHandler
  \/ SetoptDocumentNode
  \/ HandleBeforeHtml
  \/ InsertElementOf(ModeTagSet, {o \in PushOutcomes(Machine) : o.alloc_ok},
                     MaxDepth)
  \/ ResetInsertionMode

SpecModes == Init /\ [][NextModes]_vars

\* The collecting mode, entered from the modes of a table.
NextCollect ==
  \/ SetoptTreeHandler
  \/ SetoptDocumentNode
  \/ HandleBeforeHtml
  \/ InsertElementOf({table_tag, tr_tag},
                     {o \in PushOutcomes(Machine) : o.alloc_ok}, MaxDepth)
  \/ ResetInsertionMode
  \/ ParseGenericRcdata
  \/ HandleGenericRcdata

SpecCollect == Init /\ [][NextCollect]_vars

\* The types of the tag names.
NextNames == ElementTypeFromName

SpecNames == Init /\ [][NextNames]_vars

\* The attributes of foreign content.
NextForeign ==
  \/ BufferHandler
  \/ AdjustForeignAttributes

SpecForeign == Init /\ [][NextForeign]_vars

\* The options and the buffer notifications.
NextOptions ==
  \/ Setopt
  \/ BufferHandler

SpecOptions == Init /\ [][NextOptions]_vars

(* ----------------------------- properties ----------------------------- *)

Max(set) == CHOOSE x \in set : \A y \in set : y <= x

\* The calls of one sink function in a log, in order.
CallsOf(log, name) == SelectSeq(log, LAMBDA c : c.call = name)

\* The handles a log releases, in order.
UnrefSeq(log) ==
  LET u == CallsOf(log, "unref_node") IN [k \in 1..Len(u) |-> u[k].a]

\* Every sink call of the log succeeded.
SinkAllOk(log) == \A k \in 1..Len(log) : log[k].ok

\* A sequence as a bag: how many times each handle occurs.
BagOf(seq) ==
  [x \in {seq[k] : k \in 1..Len(seq)} |->
     Cardinality({k \in 1..Len(seq) : seq[k] = x})]

\* The references the engine holds, one per place that holds a handle: the
\* head element, the form element, the document node, the frames at 1 ..
\* current_node, frame 0 when it is the HTML root, and the list entries.
Held ==
  LET list == ListOf(Machine)
      n == Signed(current_node)
  IN (IF head_element # NULL THEN <<head_element>> ELSE <<>>)
       \o (IF form_element # NULL THEN <<form_element>> ELSE <<>>)
       \o (IF document # NULL THEN <<document>> ELSE <<>>)
       \o [k \in 1..(IF n > 0 THEN n ELSE 0) |-> element_stack[k].node]
       \o (IF element_stack[0].type = HTML
             THEN <<element_stack[0].node>> ELSE <<>>)
       \o [k \in 1..Len(list) |-> heap[list[k]].node]

\* What the treebuilder's fields hold, apart from the sink's handles in
\* flight.
CoreVars ==
  <<element_stack, stack_alloc, current_node, current_table, heap,
    formatting_list, formatting_list_end>>

SinkHelpers ==
  {"insert_element_no_push", "append_text", "process_comment_append"}

(* C1: with every sink call succeeding, insert_element_no_push, append_text
   and process_comment_append release the handle create_* returned and the
   handle append_child returned, once each, and the engine holds the same
   references before and after; insert_element releases only the handle
   append_child returned, and the frame it has pushed holds the created
   node, the one reference the engine has gained. *)
C1_Step ==
  LET op == last'.op
      log == last'.log
  IN (op \in SinkHelpers \cup {"insert_element"} /\ SinkAllOk(log)) =>
       IF op = "insert_element"
         THEN /\ UnrefSeq(log) = <<log[2].r>>
              /\ current_node' = current_node + 1
              /\ element_stack'[current_node'].node = log[1].r
              /\ BagOf(Held') = BagOf(Held) (+) BagOf(<<log[1].r>>)
         ELSE /\ BagOf(UnrefSeq(log)) = BagOf(<<log[1].r, log[2].r>>)
              /\ BagOf(Held') = BagOf(Held)

C1_Original == [][C1_Step]_vars

\* C1, apart from insert_element calls whose push found no memory.
C1_WhenPushed ==
  [][(last'.op = "insert_element" => current_node' = current_node + 1)
       => C1_Step]_vars

(* C2: hubbub_treebuilder_destroy with a tree handler installed makes one
   unref_node call for each reference the engine holds (head, form,
   document, frames 1 .. current_node, frame 0 iff it is the HTML root, list
   entries), no other sink call, and frees the stack and every list entry.
   A handle held in two places is two references, released twice. *)
C2_Step ==
  (last'.op = "destroy" /\ tree_handler) =>
    /\ Len(UnrefSeq(last'.log)) = Len(last'.log)
    /\ BagOf(UnrefSeq(last'.log)) = BagOf(Held)
    /\ element_stack' = <<>>
    /\ heap' = EmptyHeap

C2 == [][C2_Step]_vars

(* C2, as stated: the same, and no handle is passed to unref_node twice by
   one teardown. *)
C2_Original ==
  [][C2_Step /\ ((last'.op = "destroy" /\ tree_handler) =>
        \A x \in DOMAIN BagOf(UnrefSeq(last'.log)) :
          BagOf(UnrefSeq(last'.log))[x] = 1)]_vars

\* Teardown has released the head and form elements, the document, a frame,
\* the root and a list entry.
C2_Witness ==
  /\ last.op = "destroy"
  /\ Len(last.log) >= 6
  /\ head_element # NULL /\ form_element # NULL /\ head_element # form_element
  /\ \E x \in DOMAIN BagOf(UnrefSeq(last.log)) :
        BagOf(UnrefSeq(last.log))[x] >= 2

(* C3, as stated: after any sequence of pushes, pops, pop_until and
   close_implied_end_tags calls, current_node is >= 0 as a signed value and
   no assertion on it has failed. *)
C3_Original == Signed(current_node) >= 0 /\ ~failed

\* The caller pops only a frame above frame 0, and pops until a type only
\* when a frame of that type is above frame 0.
CallerKeepsFrameZero ==
  /\ last'.op = "element_stack_pop" => Signed(current_node) >= 1
  /\ last'.op = "element_stack_pop_until" =>
       \E k \in 1..Signed(current_node) :
          element_stack[k].type = last'.args[1]

(* C3, amended: as long as every element_stack_pop is called with
   current_node >= 1 and every element_stack_pop_until(T) with a frame of
   type T at an index >= 1, current_node stays >= 0 as a signed value and no
   assertion on it fails. *)
C3 ==
  [][CallerKeepsFrameZero => (Signed(current_node') >= 0 /\ ~failed')]_vars

\* pop_until has popped two frames and left a sound stack.
C3_Witness ==
  /\ last.op = "element_stack_pop_until"
  /\ Len(last.log) >= 2
  /\ Signed(current_node) >= 0 /\ ~failed

TableFrames ==
  {i \in 1..Signed(current_node) : element_stack[i].type = TABLE}

(* C4: current_table is 0 when no frame at 1 .. current_node is a TABLE, and
   otherwise the largest index of a TABLE frame. *)
C4 ==
  IF TableFrames = {} THEN current_table = 0
  ELSE current_table = Max(TableFrames)

\* A TABLE has been popped off a stack that holds another TABLE below.
C4_Witness ==
  /\ last.op = "element_stack_pop"
  /\ last.args[2] = TABLE
  /\ current_table # 0

(* C5, as stated: every entry of the formatting list has stack_index 0, or
   a stack_index <= current_node whose frame has the entry's type and the
   entry's node. *)
C5_Original ==
  \A a \in DOMAIN heap :
     \/ heap[a].stack_index = 0
     \/ /\ heap[a].stack_index >= 1
        /\ heap[a].stack_index <= Signed(current_node)
        /\ element_stack[heap[a].stack_index].type = heap[a].type
        /\ element_stack[heap[a].stack_index].node = heap[a].node

\* The index element_in_scope returns under a reading of "boundary": that of
\* the topmost frame of type t among the frames 1 .. current_node at or
\* above the topmost boundary frame, or 0.
InScopeIndex(t, Boundary(_)) ==
  LET idx == 1..Signed(current_node)
      bnd == {i \in idx : Boundary(element_stack[i].type)}
      low == IF bnd = {} THEN 1 ELSE Max(bnd)
      cand == {i \in idx : i >= low /\ element_stack[i].type = t}
  IN IF cand = {} THEN 0 ELSE Max(cand)

BoundaryAsStated(type) ==
  \/ type = TABLE
  \/ is_scoping_element(type) /\ type # HTML /\ type # TABLE

BoundaryWithHtml(type) == type \in APPLET..TH

(* C6, as stated: element_in_scope(t, false) returns the index of the
   topmost frame of type t at or above the nearest boundary, 0 when there is
   none, the boundaries being TABLE and the scoping types other than HTML
   and TABLE. *)
C6_Original ==
  (last.op = "element_in_scope" /\ ~last.args[2]) =>
    last.args[3] = InScopeIndex(last.args[1], BoundaryAsStated)

\* What the code computes instead: an HTML frame above frame 0 is a
\* boundary like the frames of the other scoping types.
InScopeAsCoded ==
  (last.op = "element_in_scope" /\ ~last.args[2]) =>
    last.args[3] = InScopeIndex(last.args[1], BoundaryWithHtml)

StaleEntries ==
  {a \in DOMAIN heap :
     heap[a].stack_index = 0 /\ ~is_scoping_element(heap[a].type)}

(* C7, as stated: reconstruct_active_formatting_list changes nothing when
   the list is empty or every entry is open, and otherwise makes one
   clone_node call per stale entry that is not a marker (read here for the
   calls in which no sink call fails). *)
C7_Original ==
  [][(last'.op = "reconstruct_active_formatting_list"
        /\ SinkAllOk(last'.log)) =>
       IF formatting_list = NULL
            \/ \A a \in DOMAIN heap : heap[a].stack_index # 0
         THEN last'.log = <<>> /\ UNCHANGED CoreVars
         ELSE Len(CallsOf(last'.log, "clone_node"))
                = Cardinality(StaleEntries)]_vars

RECURSIVE TrailingRun(_, _)
\* The entries of the longest tail of the list made of stale entries that
\* are not markers, in list order.
TrailingRun(h, list) ==
  IF list = <<>> THEN <<>>
  ELSE LET a == list[Len(list)]
       IN IF h[a].stack_index = 0 /\ ~is_scoping_element(h[a].type)
            THEN TrailingRun(h, SubSeq(list, 1, Len(list) - 1)) \o <<a>>
            ELSE <<>>

(* C7, amended: reconstruct_active_formatting_list changes nothing when the
   list is empty or its last entry is a marker or is open; otherwise it
   clones, in list order, the entries of the trailing run of stale entries
   that are not markers, one clone_node call each, up to the first sink
   call that fails (every entry of the run when none fails). *)
C7 ==
  [][last'.op = "reconstruct_active_formatting_list" =>
       LET run == TrailingRun(heap, ListOf(Machine))
           log == last'.log
           clones == CallsOf(log, "clone_node")
       IN IF run = <<>>
            THEN log = <<>> /\ UNCHANGED CoreVars
            ELSE /\ Len(clones) >= 1 /\ Len(clones) <= Len(run)
                 /\ \A k \in 1..Len(clones) : clones[k].a = heap[run[k]].node
                 /\ SinkAllOk(log) => Len(clones) = Len(run)
                 /\ \A k \in 1..Len(log) :
                      ~log[k].ok =>
                        \A j \in (k + 1)..Len(log) :
                           log[j].call = "unref_node"]_vars

\* Reconstruction has cloned a run of two entries.
C7_Witness ==
  /\ last.op = "reconstruct_active_formatting_list"
  /\ Len(CallsOf(last.log, "clone_node")) = 2
  /\ SinkAllOk(last.log)

(* C8: close_implied_end_tags(E) pops exactly the frames of the top run
   whose types are in {DD, DT, LI, OPTION, OPTGROUP, P, RP, RT} and are not
   E, calls unref_node once on each popped node from the top down, leaves
   the frames below as they were, ends with a top frame outside the set or
   of type E, and a second call with the same E changes nothing. *)
C8 ==
  [][last'.op = "close_implied_end_tags" =>
       LET E == last'.args[1]
           top == Signed(current_node)
           new == Signed(current_node')
           Closes(type) ==
             type \in {DD, DT, LI, OPTION, OPTGROUP, P, RP, RT} /\ type # E
       IN /\ new >= 0 /\ new <= top
          /\ \A k \in (new + 1)..top : Closes(element_stack[k].type)
          /\ ~Closes(element_stack'[new].type)
          /\ \A k \in 0..new : element_stack'[k] = element_stack[k]
          /\ last'.log =
               [k \in 1..(top - new) |->
                  Call("unref_node", TRUE, element_stack[top + 1 - k].node,
                       NULL, NULL)]
          /\ close_implied_end_tags(Machine', E) = Machine']_vars

\* close_implied_end_tags has popped two frames.
C8_Witness ==
  /\ last.op = "close_implied_end_tags"
  /\ Len(last.log) >= 2

(* C9: while the token handler runs, each step with reprocess true calls
   the handler of the mode then in context.mode with the same token and
   takes its return value as reprocess; with reprocess false the next step
   is the return, with no further handler call; so every call but the last
   of a token returned true. *)
C9 ==
  [][/\ (pc = "loop" /\ reprocess) =>
          /\ pc' = "loop" /\ token' = token
          /\ Len(calls') = Len(calls) + 1
          /\ \E k \in 1..Len(Modes) : Modes[k] = mode /\ Handlers[k] = last'.op
          /\ last'.args = <<token>>
          /\ reprocess' = calls'[Len(calls')]
     /\ (pc = "loop" /\ ~reprocess) => (pc' = "idle" /\ calls' = calls)
     /\ pc = "idle" => (calls' = calls \/ (calls' = <<>> /\ pc' = "loop"))
     /\ \A k \in 1..(Len(calls') - 1) : calls'[k]]_vars

\* A token has been dispatched again after a mode change and then swallowed.
C9_Witness ==
  /\ pc = "idle"
  /\ Len(calls) >= 2
  /\ ~calls[Len(calls)]
  /\ mode # "INITIAL"

\* The handles a log's successful create_*, clone_node and append_child
\* calls have handed to the treebuilder, one occurrence per reference.
Acquired(log) ==
  LET given == SelectSeq(log, LAMBDA c : c.call # "unref_node" /\ c.ok)
  IN [k \in 1..Len(given) |-> given[k].r]

\* How many times a value occurs in a sequence.
Count(seq, x) == Cardinality({k \in 1..Len(seq) : seq[k] = x})

(* C11, as stated, for the helpers that take no frame: when a create_* or
   append_child call of insert_element_no_push, append_text or
   process_comment_append fails, the helper passes to unref_node only
   handles it has received from the sink, and each exactly as many times as
   it has received it. *)
C11_Original ==
  [][(last'.op \in SinkHelpers /\ ~SinkAllOk(last'.log)) =>
       \A k \in 1..Len(UnrefSeq(last'.log)) :
          LET x == UnrefSeq(last'.log)[k]
          IN Count(UnrefSeq(last'.log), x) = Count(Acquired(last'.log), x)]_vars

\* What the code does when append_child fails in append_text or
\* process_comment_append: the created node is released twice, and the
\* uninitialised local that was to receive the child once.
AppendFailureReleases ==
  [][(/\ last'.op \in {"append_text", "process_comment_append"}
      /\ last'.log[1].ok /\ ~last'.log[2].ok) =>
       UnrefSeq(last'.log)
         = <<last'.log[1].r, last'.log[2].r, last'.log[1].r>>]_vars

\* Every entry of the formatting list is stale or indexes the frame that
\* holds its type and node.
EntriesMatchFrames ==
  \A a \in DOMAIN heap :
     heap[a].stack_index # 0 =>
       /\ heap[a].stack_index <= Signed(current_node)
       /\ element_stack[heap[a].stack_index].type = heap[a].type
       /\ element_stack[heap[a].stack_index].node = heap[a].node

\* No reference is lost or invented by a step: for every handle, what is
\* held afterwards plus what was released is what was held before plus what
\* the sink handed over.
ReferencesKept ==
  \A x \in Handles :
     Count(Held', x) + Count(UnrefSeq(last'.log), x)
       = Count(Held, x) + Count(Acquired(last'.log), x)

\* Every element the step has created or cloned has been pushed.
EveryPushDone ==
  Signed(current_node') - Signed(current_node)
    = Len(CallsOf(last'.log, "create_element"))
        + Len(CallsOf(last'.log, "clone_node"))

(* C12, as stated: when every sink call of insert_element or
   reconstruct_active_formatting_list succeeds, whether or not
   element_stack_push finds memory, the entries of the formatting list stay
   matched to their frames and no reference is lost or released while still
   stored. *)
C12_Original ==
  [][(/\ last'.op \in {"insert_element", "reconstruct_active_formatting_list"}
      /\ SinkAllOk(last'.log)
      /\ EntriesMatchFrames) =>
       (EntriesMatchFrames' /\ ReferencesKept)]_vars

\* The same holds of the calls in which every push succeeds.
ConsistentWhenPushed ==
  [][(/\ last'.op \in {"insert_element", "reconstruct_active_formatting_list"}
      /\ SinkAllOk(last'.log)
      /\ EveryPushDone
      /\ EntriesMatchFrames) =>
       (EntriesMatchFrames' /\ ReferencesKept)]_vars

\* The treebuilder's fields after a setopt that stores the option named by
\* type and nothing else.
OptionStored(type, params) ==
  CASE type = "BUFFER_HANDLER" ->
         [Machine EXCEPT !.buffer_handler = params[1], !.buffer_pw = params[2]]
    [] type = "ERROR_HANDLER" ->
         [Machine EXCEPT !.error_handler = params[1], !.error_pw = params[2]]
    [] type = "TREE_HANDLER" -> [Machine EXCEPT !.tree_handler = params[1]]
    [] type = "DOCUMENT_NODE" -> [Machine EXCEPT !.document = params[1]]

\* The setopt call of a step, for the four options: what it was given and
\* what it returned.
SetoptStep(Holds(_, _, _, _)) ==
  (last'.op = "setopt" /\ last'.args[2] \in OptTypes) =>
     Holds(last'.args[1], last'.args[2], last'.args[3], last'.args[4])

(* C13, as stated: hubbub_treebuilder_setopt returns HUBBUB_BADPARM and
   changes nothing when the treebuilder or params is NULL; otherwise it
   returns HUBBUB_OK having stored the option named by type and changed no
   other field of the treebuilder. *)
C13_Original ==
  [][SetoptStep(LAMBDA treebuilder, type, params, ret :
       IF treebuilder = NULL \/ params = <<>>
         THEN ret = "HUBBUB_BADPARM" /\ Machine' = Machine
         ELSE /\ ret = "HUBBUB_OK" /\ ~failed'
              /\ [Machine' EXCEPT !.pbuffer = pbuffer]
                   = OptionStored(type, params))]_vars

\* What the code does: the same, except that a BUFFER_HANDLER option whose
\* handler is NULL is stored and then called, which stops the process.
SetoptAsCoded ==
  [][SetoptStep(LAMBDA treebuilder, type, params, ret :
       IF treebuilder = NULL \/ params = <<>>
         THEN ret = "HUBBUB_BADPARM" /\ Machine' = Machine
         ELSE /\ [Machine' EXCEPT !.pbuffer = pbuffer, !.failed = FALSE]
                   = OptionStored(type, params)
              /\ failed' = (type = "BUFFER_HANDLER" /\ params[1] = NULL)
              /\ ~failed' => ret = "HUBBUB_OK")]_vars

(* C14: a buffer-move notification (data, len) leaves input_buffer = data
   and input_buffer_len = len and, when a client handler is registered,
   calls it once with (data, len) and its pw, no other call being made; a
   setopt that registers a client handler calls it at once with the
   recorded base and length; so whenever a client handler is registered,
   and in particular when a token is delivered, the client's view of the
   base is input_buffer. *)
C14 ==
  [][/\ last'.op = "buffer_handler" =>
          /\ input_buffer' = last'.args[1]
          /\ input_buffer_len' = last'.args[2]
          /\ last'.log =
               IF buffer_handler = NULL THEN <<>>
               ELSE <<Call("buffer_handler", TRUE, last'.args[1],
                           last'.args[2], buffer_pw)>>
     /\ (/\ last'.op = "setopt" /\ last'.args[4] = "HUBBUB_OK"
         /\ last'.args[2] = "BUFFER_HANDLER") =>
          last'.log = <<Call("buffer_handler", TRUE, input_buffer,
                             input_buffer_len, last'.args[3][2])>>
     /\ buffer_handler' # NULL => pbuffer' = input_buffer']_vars

\* A registered client has been told of a move to another place.
C14_Witness ==
  /\ last.op = "buffer_handler"
  /\ Len(last.log) = 1
  /\ buffer_handler # NULL
  /\ pbuffer = MaxBuffers
  /\ input_buffer_len = MaxLen
  /\ tree_handler /\ document # NULL

\* A tree has a DOCTYPE node.
HasDoctype(tree) == \E k \in 1..Len(tree) : tree[k].type = "DOCTYPE"

(* C15, as stated: the tree of every test case, printed by the test, equals
   the #document block byte for byte, so the comparison passes. *)
C15_Original ==
  [][last'.op = "node_print" => last'.args[2]]_vars

\* The printed tree equals the block exactly when the tree has no DOCTYPE
\* node; with one, the print has the line "| <!DOCTYPE " where the block
\* has "| <!DOCTYPE html>".
PrintPassesWithoutDoctype ==
  [][last'.op = "node_print" => (last'.args[2] <=> ~HasDoctype(Document))]_vars

\* What a reconstruction in which every call succeeds does with the
\* trailing run of stale entries, the namespace of the i-th new frame being
\* FrameNs(run[i]).
ReconstructsRun(FrameNs(_)) ==
  (/\ last'.op = "reconstruct_active_formatting_list"
   /\ SinkAllOk(last'.log) /\ EveryPushDone
   /\ TrailingRun(heap, ListOf(Machine)) # <<>>) =>
     LET run == TrailingRun(heap, ListOf(Machine))
         n == Len(run)
         old == Signed(current_node)
         clones == CallsOf(last'.log, "clone_node")
         appends == CallsOf(last'.log, "append_child")
     IN /\ Len(clones) = n /\ Len(appends) = n
        /\ Signed(current_node') = old + n
        /\ \A i \in 1..n :
             /\ clones[i].a = heap[run[i]].node
             /\ appends[i].a = element_stack'[old + i - 1].node
             /\ appends[i].b = clones[i].r
             /\ element_stack'[old + i]
                  = Frame(FrameNs(run[i]), heap[run[i]].type, clones[i].r)
             /\ heap'[run[i]].type = heap[run[i]].type
             /\ heap'[run[i]].node = clones[i].r
             /\ heap'[run[i]].stack_index = old + i
        /\ UnrefSeq(last'.log) = [i \in 1..n |-> heap[run[i]].node]
        /\ \A a \in DOMAIN heap :
             (\A i \in 1..n : run[i] # a) => heap'[a] = heap[a]
        /\ DOMAIN heap' = DOMAIN heap

(* C16, as stated: a reconstruction clones each entry of the trailing run,
   in order, appends the clone to the node of the frame then current, pushes
   a frame with the namespace of the element (HUBBUB_NS_HTML for every
   element of this specification), the entry's type and the clone, and
   replaces the entry by (type, clone, index of the new frame), releasing
   the old node once; current_node grows by the length of the run and the
   other entries are unchanged. *)
C16_Original ==
  [][ReconstructsRun(LAMBDA a : HUBBUB_NS_HTML)]_vars

\* What the code does: the same, the namespace of the new frame being what
\* the ns field of the entry holds, which no function of the list writes.
ReconstructAsCoded ==
  [][ReconstructsRun(LAMBDA a : heap[a].ns)]_vars

(* C17, as stated: with in_table false, when the topmost frame of type t
   lies under an HTML frame and every frame above it is an HTML frame or a
   frame of no scoping type, element_in_scope(t, false) returns the index of
   that frame of type t. *)
C17_Original ==
  (last.op = "element_in_scope" /\ ~last.args[2]) =>
    \A i \in 1..Signed(current_node) :
       (/\ element_stack[i].type = last.args[1]
        /\ \E j \in (i + 1)..Signed(current_node) :
              element_stack[j].type = HTML
        /\ \A k \in (i + 1)..Signed(current_node) :
              /\ element_stack[k].type # last.args[1]
              /\ element_stack[k].type = HTML
                   \/ ~is_scoping_element(element_stack[k].type))
         => last.args[3] = i

\* What the code returns for such a stack: 0.
HtmlFrameEndsScope ==
  (last.op = "element_in_scope" /\ ~last.args[2]) =>
    \A i \in 1..Signed(current_node) :
       (/\ element_stack[i].type = last.args[1]
        /\ \E j \in (i + 1)..Signed(current_node) :
              element_stack[j].type = HTML
        /\ \A k \in (i + 1)..Signed(current_node) :
              element_stack[k].type # last.args[1])
         => last.args[3] = 0

\* TABLE alone is a boundary.
BoundaryTableOnly(type) == type = TABLE

(* C18: element_in_scope(t, true) returns the index of the topmost frame of
   type t among the frames 1 .. current_node at or above the topmost TABLE
   frame (among all of them when there is no TABLE), and 0 when there is
   none; frames of the other scoping types do not end the search. *)
C18 ==
  (last.op = "element_in_scope" /\ last.args[2]) =>
    last.args[3] = InScopeIndex(last.args[1], BoundaryTableOnly)

\* In table scope an element has been found under a TD frame.
C18_Witness ==
  /\ last.op = "element_in_scope" /\ last.args[2]
  /\ last.args[3] >= 1
  /\ \E j \in (last.args[3] + 1)..Signed(current_node) :
        element_stack[j].type = TD

\* The entries of the list of active formatting elements, head to tail.
ListEntries == WalkNext(heap, formatting_list, MaxAddrs + 1)

\* The step is a call of element_stack_pop.
PopStep == last'.op = "element_stack_pop"

(* C19: element_stack_pop returns the (ns, type, node) of the frame at
   current_node and leaves current_node one lower; when the type of the
   popped frame is a formatting element or a scoping element other than HTML
   and TABLE, every entry of the formatting list whose stack_index is the
   popped slot has stack_index 0 afterwards; no other stack_index, no type
   or node of an entry and no frame below the popped slot is changed. *)
C19 ==
  [][PopStep =>
       LET slot == current_node
           fr == element_stack[slot]
           hit(a) == InvalidatesEntries(fr.type) /\ heap[a].stack_index = slot
       IN /\ last'.args = <<fr.ns, fr.type, fr.node>>
          /\ current_node' = slot - 1
          /\ DOMAIN heap' = DOMAIN heap
          /\ \A k \in 1..Len(ListEntries) :
                LET a == ListEntries[k]
                IN /\ heap'[a].stack_index =
                        IF hit(a) THEN 0 ELSE heap[a].stack_index
                   /\ heap'[a].type = heap[a].type
                   /\ heap'[a].node = heap[a].node
          /\ \A i \in 0..(Signed(slot) - 1) :
                element_stack'[i] = element_stack[i]]_vars

\* A pop has just cleared the stack index of one entry and left another
\* entry's nonzero stack index alone.
C19_Witness ==
  /\ last.op = "element_stack_pop"
  /\ InvalidatesEntries(last.args[2])
  /\ ~failed
  /\ \E a \in DOMAIN heap, c \in DOMAIN heap :
        /\ heap[a].node = last.args[3] /\ heap[a].stack_index = 0
        /\ heap[c].stack_index >= 1
        /\ heap[c].stack_index <= Signed(current_node)

\* The step is a call of element_stack_pop_until.
PopUntilStep == last'.op = "element_stack_pop_until"

\* The frames of the stack from index hi down to index lo, as their nodes.
NodesDown(stack, hi, lo) == [k \in 1..(hi - lo + 1) |-> stack[hi + 1 - k].node]

\* The sink calls of the operation a step has run.
NewCalls == last'.log

\* element_stack_pop_until(T) has popped the frames from current_node down
\* to the topmost frame of type T, released each popped node once, and left
\* the frames below alone.
PoppedDownTo(type) ==
  LET top == Signed(current_node)
      of_type == {k \in 1..top : element_stack[k].type = type}
      j == Max(of_type)
  IN of_type # {} =>
       /\ ~failed'
       /\ current_node' = j - 1
       /\ [k \in 1..(top - j + 1) |-> NewCalls[k].a]
            = NodesDown(element_stack, top, j)
       /\ Len(NewCalls) = top - j + 1
       /\ \A k \in 1..Len(NewCalls) : NewCalls[k].call = "unref_node"
       /\ \A i \in 0..(j - 1) : element_stack'[i] = element_stack[i]

(* C20, as stated: when a frame of type T is on the stack at an index >= 1,
   element_stack_pop_until(T) pops exactly the frames from current_node down
   to the topmost frame j of type T, calls unref_node exactly once on each
   popped node, ends with current_node = j - 1, leaves the frames below j
   unchanged and returns. *)
C20_Original == [][PopUntilStep => PoppedDownTo(last'.args[1])]_vars

\* What the code does: the same for every type but UNKNOWN, the value otype
\* starts with; for UNKNOWN the loop body never runs.
PopUntilAsCoded ==
  [][PopUntilStep =>
       IF last'.args[1] = UNKNOWN
         THEN current_node' = current_node /\ NewCalls = <<>>
                /\ element_stack' = element_stack
         ELSE PoppedDownTo(last'.args[1])]_vars

\* The step is a call of clear_active_formatting_list_to_marker.
ClearStep == last'.op = "clear_active_formatting_list_to_marker"

\* What an entry holds, apart from its links.
Details(e) == <<e.ns, e.type, e.node, e.stack_index>>

(* C21: clear_active_formatting_list_to_marker removes the entries from the
   tail of the list up to and including the last entry of a scoping type
   (the whole list when there is none), calls unref_node once on the node of
   each removed entry, tail first, and nothing else; the entries before the
   marker keep their order and what they hold, and the stack of open
   elements is unchanged. *)
C21 ==
  [][ClearStep =>
       LET list == ListEntries
           markers == {k \in 1..Len(list) :
                         is_scoping_element(heap[list[k]].type)}
           cut == IF markers = {} THEN 1 ELSE Max(markers)
           gone == Len(list) - cut + 1
       IN /\ ListEntries' = SubSeq(list, 1, cut - 1)
          /\ DOMAIN heap' = {list[k] : k \in 1..(cut - 1)}
          /\ \A k \in 1..(cut - 1) :
                Details(heap'[list[k]]) = Details(heap[list[k]])
          /\ last'.log = IF list = <<>> THEN <<>>
                         ELSE [k \in 1..gone |->
                                 Call("unref_node", TRUE,
                                      heap[list[Len(list) + 1 - k]].node,
                                      NULL, NULL)]
          /\ element_stack' = element_stack
          /\ current_node' = current_node
          /\ current_table' = current_table]_vars

\* The list has been cleared down to a marker with an entry before it: the
\* marker is gone and released, the entry before it is still in the list.
C21_Witness ==
  /\ last.op = "clear_active_formatting_list_to_marker"
  /\ Len(last.log) >= 1
  /\ formatting_list # NULL
  /\ formatting_list_end # NULL

Min(set) == CHOOSE x \in set : \A y \in set : x <= y

\* The step is a call of process_characters_expect_whitespace.
WhitespaceStep == last'.op = "process_characters_expect_whitespace"

\* The bytes a string names in a buffer.
StringBytes(bytes, string) ==
  SubSeq(bytes, string.off + 1, string.off + string.len)

\* The length of the leading run of whitespace of a token.
RunOf(bytes, tok) ==
  LET stops == {c \in 0..(tok.len - 1) :
                  bytes[tok.off + c + 1] \notin {9, 10, 12, 32}}
  IN IF stops = {} THEN tok.len ELSE Min(stops)

(* C22, as stated: for a character token whose leading run of whitespace has
   a length k with 0 < k < the token's length, the call with
   insert_into_current_node true hands to append_text the string of the
   first k bytes of the token: the token's offset, length k. *)
C22_Original ==
  [][WhitespaceStep =>
       LET bytes == last'.args[1]
           tok == last'.args[2]
           k == RunOf(bytes, tok)
       IN (k > 0 /\ k < tok.len /\ last'.args[3]) =>
             last'.args[6] = <<[off |-> tok.off, len |-> k]>>]_vars

\* What the code hands to append_text: length - k bytes from the token's
\* offset on.
WhitespaceTextAsCoded ==
  [][WhitespaceStep =>
       LET bytes == last'.args[1]
           tok == last'.args[2]
           k == RunOf(bytes, tok)
       IN (k > 0 /\ k < tok.len /\ last'.args[3]) =>
             last'.args[6] = <<[off |-> tok.off, len |-> tok.len - k]>>]_vars

(* C23: when every byte of the token is whitespace the call returns false,
   calls the sink not at all and leaves the token as it was; otherwise it
   returns true with the token's offset k higher and its length k lower, so
   that offset + length is unchanged and the first remaining byte is not
   whitespace. *)
C23 ==
  [][WhitespaceStep =>
       LET bytes == last'.args[1]
           tok == last'.args[2]
           k == RunOf(bytes, tok)
           ret == last'.args[4]
           left == last'.args[5]
       IN IF k = tok.len
            THEN ~ret /\ last'.log = <<>> /\ left = tok
            ELSE /\ ret
                 /\ left.off = tok.off + k /\ left.len = tok.len - k
                 /\ left.off + left.len = tok.off + tok.len
                 /\ bytes[left.off + 1] \notin {9, 10, 12, 32}]_vars

\* A token of a form feed, a space and a letter has been cut down to the
\* letter.
C23_Witness ==
  /\ last.op = "process_characters_expect_whitespace"
  /\ last.args[4]
  /\ last.args[2].len = 3 /\ last.args[5].len = 1
  /\ last.args[1][1] = 12

\* A token of whitespace alone has been swallowed.
C23_WitnessSwallowed ==
  /\ last.op = "process_characters_expect_whitespace"
  /\ ~last.args[4]
  /\ last.args[2].len >= 2

\* The step is a call of insert_element.
InsertStep == last'.op = "insert_element"

\* The parents of the append_child calls of a log.
AppendParents(log) ==
  {log[k].a : k \in {i \in 1..Len(log) : log[i].call = "append_child"}}

(* C24, as stated: with in_table_foster set and a TABLE as the current node,
   insert_element places the new element relative to the parent of the
   TABLE and does not append it to the current node. *)
C24_Original ==
  [][(/\ InsertStep
      /\ in_table_foster
      /\ current_table = current_node /\ Signed(current_node) >= 1)
       => element_stack[current_node].node \notin AppendParents(last'.log)]_vars

\* What the code does, whatever the flag: the new element is appended to the
\* node of the current frame, and when the push succeeds its frame is the
\* tag's namespace, the type of its name and the created node, one above.
InsertAsCoded ==
  [][InsertStep =>
       LET log == last'.log
           tag == last'.args[1]
       IN /\ Len(log) = 3
          /\ log[2].call = "append_child"
          /\ log[2].a = element_stack[current_node].node
          /\ log[2].b = log[1].r
          /\ in_table_foster' = in_table_foster
          /\ current_node' # current_node =>
               /\ current_node' = current_node + 1
               /\ element_stack'[current_node'] =
                    Frame(tag.ns, element_type_from_name(tag.name), log[1].r)]_vars

\* The step is a call of append_text.
AppendTextStep == last'.op = "append_text"

\* The operation before the step was an append_text that went well: the
\* last child of the current node is the text node it made.
LastChildIsText ==
  /\ last.op = "append_text"
  /\ SinkAllOk(last.log)
  /\ \E k \in 1..Len(last.log) :
        /\ last.log[k].call = "append_child"
        /\ last.log[k].a = element_stack[current_node].node

(* C25, as stated: when the last child of the current node is a text node,
   append_text makes no new text node (it adds the string to that child);
   two append_text calls in a row on one current node leave one text
   child. *)
C25_Original ==
  [][(AppendTextStep /\ LastChildIsText) =>
       CallsOf(last'.log, "create_text") = <<>>]_vars

\* What the code does: every append_text makes a text node and appends it
\* to the node of the current frame.
AppendTextAsCoded ==
  [][AppendTextStep =>
       /\ Len(CallsOf(last'.log, "create_text")) = 1
       /\ Len(CallsOf(last'.log, "append_child")) = 1
       /\ last'.log[1].call = "create_text"
       /\ last'.log[2].call = "append_child"
       /\ last'.log[2].a = element_stack[current_node].node
       /\ last'.log[2].b = last'.log[1].r]_vars

\* The step is a call of adjust_foreign_attributes.
AdjustStep == last'.op = "adjust_foreign_attributes"

\* The attribute with its name cut by n bytes at the front, in namespace ns.
Stripped(attr, n, ns) ==
  [ns |-> ns, name |-> [off |-> attr.name.off + n, len |-> attr.name.len - n]]

(* C26, as stated: an attribute whose name starts with xlink: or xml:, or is
   xmlns or xmlns:xlink, loses the prefix (offset past it, length lower by
   as much, the rest of the name inside the name) and gets the namespace
   XLINK, XML or XMLNS; every other attribute keeps its name and
   namespace. *)
C26_Original ==
  [][AdjustStep =>
       LET bytes == last'.args[1]
           old == last'.args[2]
           new == last'.args[3]
       IN \A i \in 1..Len(old) :
             LET name == SubSeq(bytes, old[i].name.off + 1,
                                old[i].name.off + old[i].name.len)
             IN IF HasPrefix(name, XlinkPrefix)
                  THEN new[i] = Stripped(old[i], 6, HUBBUB_NS_XLINK)
                ELSE IF HasPrefix(name, XmlPrefix)
                  THEN new[i] = Stripped(old[i], 4, HUBBUB_NS_XML)
                ELSE IF name \in XmlnsNames
                  THEN /\ new[i].ns = HUBBUB_NS_XMLNS
                       /\ new[i].name.len >= 0
                       /\ new[i].name.off + new[i].name.len
                            = old[i].name.off + old[i].name.len
                ELSE new[i] = old[i]]_vars

\* What the code does: the prefix goes only from the names it lists, and six
\* bytes go from xmlns as from xmlns:xlink.
ForeignAdjustAsCoded ==
  [][AdjustStep =>
       LET bytes == last'.args[1]
           old == last'.args[2]
           new == last'.args[3]
       IN \A i \in 1..Len(old) :
             LET name == SubSeq(bytes, old[i].name.off + 1,
                                old[i].name.off + old[i].name.len)
             IN IF \E x \in XlinkNames : name = XlinkPrefix \o x
                  THEN new[i] = Stripped(old[i], 6, HUBBUB_NS_XLINK)
                ELSE IF \E x \in XmlNames : name = XmlPrefix \o x
                  THEN new[i] = Stripped(old[i], 4, HUBBUB_NS_XML)
                ELSE IF name \in XmlnsNames
                  THEN new[i] = Stripped(old[i], 6, HUBBUB_NS_XMLNS)
                ELSE new[i] = old[i]]_vars

\* The step is a call of reset_insertion_mode.
ResetStep == last'.op = "reset_insertion_mode"

\* The mode a frame type stands for, "" when it stands for none.
ModeOfType(type) ==
  CASE type \in {TD, TH} -> "IN_CELL"
    [] type = TR -> "IN_ROW"
    [] type \in {TBODY, TFOOT, THEAD} -> "IN_TABLE_BODY"
    [] type = CAPTION -> "IN_CAPTION"
    [] type = TABLE -> "IN_TABLE"
    [] type = BODY -> "IN_BODY"
    [] OTHER -> ""

(* C27: reset_insertion_mode sets the mode from the topmost frame among
   current_node .. 1 whose type is TD or TH (IN_CELL), TR (IN_ROW), TBODY,
   TFOOT or THEAD (IN_TABLE_BODY), CAPTION (IN_CAPTION), TABLE (IN_TABLE) or
   BODY (IN_BODY); with no such frame the mode stays; the stack,
   current_node, current_table and the formatting list stay in every
   case. *)
C27 ==
  [][ResetStep =>
       LET known == {k \in 1..Signed(current_node) :
                       ModeOfType(element_stack[k].type) # ""}
       IN /\ mode' = IF known = {} THEN mode
                     ELSE ModeOfType(element_stack[Max(known)].type)
          /\ element_stack' = element_stack
          /\ current_node' = current_node
          /\ current_table' = current_table
          /\ heap' = heap
          /\ formatting_list' = formatting_list
          /\ formatting_list_end' = formatting_list_end
          /\ last'.log = <<>>]_vars

\* The mode has been reset to IN_ROW from a TR frame above a TABLE frame.
C27_Witness ==
  /\ last.op = "reset_insertion_mode"
  /\ mode = "IN_ROW"
  /\ Signed(current_node) = 2
  /\ element_stack[1].type = TABLE
  /\ element_stack[2].type = TR

\* The mode has been left alone: no frame above frame 0 stands for a mode.
C27_WitnessUnchanged ==
  /\ last.op = "reset_insertion_mode"
  /\ Signed(current_node) >= 1
  /\ \A k \in 1..Signed(current_node) : ModeOfType(element_stack[k].type) = ""

\* The step is a call of parse_generic_rcdata.
RcdataStep == last'.op = "parse_generic_rcdata"

(* C29: parse_generic_rcdata saves the mode in force as collect.mode, sets
   the mode to GENERIC_RCDATA, records the type of the tag's name and the
   created node in collect, sets the collected string to length 0, sets the
   tokeniser's content model to RCDATA when rcdata is true and to CDATA
   otherwise, and appends the created element to the node of the current
   frame without pushing it: the stack, current_node and the formatting list
   stay. *)
C29 ==
  [][RcdataStep =>
       LET tag == last'.args[1]
           rcdata == last'.args[2]
           log == last'.log
       IN /\ collect'.mode = mode
          /\ mode' = "GENERIC_RCDATA"
          /\ collect'.type = element_type_from_name(tag.name)
          /\ log[1].call = "create_element"
          /\ log[1].ok => collect'.node = log[1].r
          /\ collect'.string.len = 0
          /\ content_model' = IF rcdata THEN "RCDATA" ELSE "CDATA"
          /\ log[2].call = "append_child"
          /\ log[2].a = element_stack[current_node].node
          /\ log[2].b = collect'.node
          /\ element_stack' = element_stack
          /\ current_node' = current_node
          /\ current_table' = current_table
          /\ heap' = heap
          /\ formatting_list' = formatting_list
          /\ formatting_list_end' = formatting_list_end]_vars

\* The collection of a title has started in the mode IN_ROW: the saved mode
\* is IN_ROW, the tokeniser reads RCDATA.
C29_Witness ==
  /\ last.op = "parse_generic_rcdata"
  /\ SinkAllOk(last.log)
  /\ collect.mode = "IN_ROW"
  /\ collect.type = TITLE
  /\ content_model = "RCDATA"
  /\ mode = "GENERIC_RCDATA"

\* The step is a call of hubbub_treebuilder_token_handler.
TokenStep == pc = "idle" /\ last'.op = "token_handler"

(* C30: while the document node or the tree handler is unset, a call of
   hubbub_treebuilder_token_handler returns at once: no mode handler is
   called, the sink is not called, and the mode, the stack and the
   formatting list stay as they are. *)
C30 ==
  [][(TokenStep /\ (document = NULL \/ ~tree_handler)) =>
       /\ pc' = "idle"
       /\ last'.args[2] = "ignored"
       /\ last'.log = <<>>
       /\ calls' = calls
       /\ mode' = mode
       /\ element_stack' = element_stack
       /\ current_node' = current_node
       /\ current_table' = current_table
       /\ heap' = heap
       /\ formatting_list' = formatting_list
       /\ formatting_list_end' = formatting_list_end]_vars

\* A token has been dropped with the document node set and no tree handler.
C30_Witness ==
  /\ last.op = "token_handler"
  /\ last.args[2] = "ignored"
  /\ document # NULL
  /\ ~tree_handler
  /\ pc = "idle"

\* The step is a call of element_type_from_name.
NameStep == last'.op = "element_type_from_name"

\* A name under ASCII case folding.
Folded(name) ==
  [k \in 1..Len(name) |->
     IF name[k] >= 97 /\ name[k] <= 122 THEN name[k] - 32 ELSE name[k]]

\* The names of name_type_map under ASCII case folding.
FoldedTable ==
  [k \in 1..Len(name_type_map) |-> Folded(name_type_map[k].name)]

(* C28: element_type_from_name returns the type of a table entry exactly
   when the name has the length of the entry's name and equals it under
   ASCII case folding, so that every casing of a table name gives the
   entry's type, and returns UNKNOWN for every other name, the table names
   cut short or extended among them. *)
C28 ==
  [][NameStep =>
       LET name == last'.args[1]
           type == last'.args[2]
           same == {k \in 1..Len(name_type_map) :
                      FoldedTable[k] = Folded(name)}
       IN IF same = {} THEN type = UNKNOWN
          ELSE \A k \in same : type = name_type_map[k].type]_vars

\* The name tD has given TD, and the name tdx UNKNOWN.
C28_Witness ==
  /\ last.op = "element_type_from_name"
  /\ last.args = <<(<<116, 68>>), TD>>

C28_WitnessExtended ==
  /\ last.op = "element_type_from_name"
  /\ last.args = <<(<<116, 100, 120>>), UNKNOWN>>

(* ----------------------- C31: the stack's capacity --------------------- *)

\* stack_alloc is a positive multiple of the chunk and current_node, as the
\* uint32_t it is, lies below it.
CapacityHolds ==
  /\ stack_alloc > 0
  /\ stack_alloc % ELEMENT_STACK_CHUNK = 0
  /\ ~UnsignedGe(current_node, stack_alloc)
  /\ DOMAIN element_stack = 0..(stack_alloc - 1)

(* C31: while the treebuilder lives, stack_alloc is a positive multiple of
   ELEMENT_STACK_CHUNK, no step lowers it, and current_node < stack_alloc, so
   the frame a push writes lies inside the allocated array. *)
C31 ==
  [][/\ Live => CapacityHolds
     /\ Live' => (CapacityHolds' /\ stack_alloc' >= stack_alloc)]_vars

\* A push has grown the array and written the first frame of the new chunk.
C31_Witness ==
  /\ Live
  /\ last.op = "insert_element"
  /\ stack_alloc = 2 * ELEMENT_STACK_CHUNK
  /\ current_node = ELEMENT_STACK_CHUNK

(* --------------------- C32: element_stack_push ------------------------- *)

PushStep == last'.op = "element_stack_push"

(* C32: element_stack_push that finds no memory to grow the array returns
   false and leaves the frames, current_node, current_table and stack_alloc
   as they were; one that returns true has written (ns, type, node) to the
   new top frame, raised current_node by one, and set current_table to the
   new index if the type is TABLE, leaving it alone otherwise. *)
C32 ==
  [][PushStep =>
       LET ns == last'.args[1]
           type == last'.args[2]
           node == last'.args[3]
           ret == last'.args[4]
       IN IF ret
            THEN /\ current_node' = current_node + 1
                 /\ element_stack'[current_node'] = Frame(ns, type, node)
                 /\ \A k \in 0..current_node :
                      element_stack'[k] = element_stack[k]
                 /\ current_table' = IF type = TABLE THEN current_node'
                                     ELSE current_table
            ELSE /\ UnsignedGe(current_node + 1, stack_alloc)
                 /\ element_stack' = element_stack
                 /\ current_node' = current_node
                 /\ current_table' = current_table
                 /\ stack_alloc' = stack_alloc]_vars

\* A push has failed to grow a full array above a table.
C32_Witness ==
  /\ last.op = "element_stack_push"
  /\ last.args[4] = FALSE
  /\ current_table # 0

\* A push of a table has grown the array.
C32_WitnessTable ==
  /\ last.op = "element_stack_push"
  /\ last.args[4] = TRUE
  /\ last.args[2] = TABLE
  /\ stack_alloc = 2 * ELEMENT_STACK_CHUNK
  /\ current_table = ELEMENT_STACK_CHUNK

(* ------------------ C33: teardown while collecting --------------------- *)

\* Teardown, with a tree handler, of a treebuilder that parse_generic_rcdata
\* has just put into GENERIC_RCDATA with every sink call succeeding:
\* collect.node is the created element and the treebuilder holds its
\* reference.
CollectingTeardown ==
  /\ last'.op = "destroy"
  /\ tree_handler
  /\ mode = "GENERIC_RCDATA"
  /\ last.op = "parse_generic_rcdata"
  /\ SinkAllOk(last.log)
  /\ collect.node = last.log[1].r

(* C33, as stated: teardown in GENERIC_RCDATA mode releases the reference on
   context.collect.node exactly once. *)
C33_Original ==
  [][CollectingTeardown =>
       Count(UnrefSeq(last'.log), collect.node) = 1]_vars

\* As coded: teardown releases the references of Held, which do not include
\* collect.node, and never passes collect.node to unref_node.
CollectNodeNeverReleased ==
  [][CollectingTeardown =>
       /\ BagOf(UnrefSeq(last'.log)) = BagOf(Held)
       /\ Count(UnrefSeq(last'.log), collect.node) = 0]_vars

\* Such a teardown has happened.
CollectingTeardownDone ==
  /\ last.op = "destroy"
  /\ mode = "GENERIC_RCDATA"
  /\ collect.node \in Handles
  /\ Len(last.log) >= 2

(* ------------- C34: the tokeniser after the memory is gone ------------- *)

\* The treebuilder's memory has been released: destroy has returned, or
\* create has returned NULL.
Released == made = "null" \/ (made = "yes" /\ destroyed)

\* The tokeniser holds a callback of the treebuilder with the treebuilder
\* as its pw.
Dangling(h) ==
  /\ h.handler \in {"hubbub_treebuilder_token_handler",
                    "hubbub_treebuilder_buffer_handler"}
  /\ h.pw = Self

(* C34, as stated: whenever the treebuilder's memory has been released, by
   hubbub_treebuilder_destroy or on a failure path of
   hubbub_treebuilder_create, the tokeniser holds no token handler and no
   buffer handler whose pw is that treebuilder. *)
C34_Original ==
  Released =>
    (~Dangling(tokeniser.token_handler) /\ ~Dangling(tokeniser.buffer_handler))

\* As coded: create leaves its token handler registered when the second
\* setopt fails, and destroy leaves a handler whose setopt fails.
HandlersAsCoded ==
  Released =>
    IF made = "null"
      THEN LET o == last.args[1]
           IN /\ Dangling(tokeniser.token_handler) <=>
                   (o.args_ok /\ o.tb_ok /\ o.stack_ok /\ o.token_ok
                      /\ ~o.buffer_ok)
              /\ ~Dangling(tokeniser.buffer_handler)
      ELSE LET oks == last.args[1]
           IN /\ Dangling(tokeniser.buffer_handler) <=> ~oks[1]
              /\ Dangling(tokeniser.token_handler) <=> ~oks[2]

\* The same with a tokeniser whose setopt does not fail once it has worked:
\* only create's second setopt is left to fail.
CreateLeavesTokenHandler ==
  (made = "null" /\ last.args[1].token_ok /\ ~last.args[1].buffer_ok
     /\ last.args[1].args_ok /\ last.args[1].tb_ok /\ last.args[1].stack_ok)
    => Dangling(tokeniser.token_handler)

(* ------------------- C35: the list stays well formed ------------------- *)

\* The triple the list functions take and give back.
Triple(e) == <<e.type, e.node, e.stack_index>>

\* The list of heap h from head to tail, as addresses.
Listed(h, head) == WalkNext(h, head, MaxAddrs + 1)

\* The doubly linked list of heap h with the given head and tail is well
\* formed and holds every allocated entry.
WellFormedList(h, head, tail) ==
  LET list == Listed(h, head)
      n == Len(list)
  IN /\ (head = NULL) = (tail = NULL)
     /\ (head = NULL) = (DOMAIN h = {})
     /\ {list[k] : k \in 1..n} = DOMAIN h
     /\ n = Cardinality(DOMAIN h)
     /\ head # NULL =>
          /\ h[head].prev = NULL
          /\ h[tail].next = NULL
          /\ list[n] = tail
     /\ \A k \in 1..(n - 1) :
          h[list[k]].next = list[k + 1] /\ h[list[k + 1]].prev = list[k]

\* The entries of heap g that h holds too hold the same triples in both.
SameTriples(h, g) ==
  \A a \in DOMAIN h \cap DOMAIN g : Triple(h[a]) = Triple(g[a])

\* seq with x put after its first i members.
InsertedAt(seq, i, x) ==
  SubSeq(seq, 1, i) \o <<x>> \o SubSeq(seq, i + 1, Len(seq))

\* seq without its member x.
Without(seq, x) == SelectSeq(seq, LAMBDA y : y # x)

\* The place of address a in seq, 0 for NULL.
PlaceOf(seq, a) ==
  IF a = NULL THEN 0 ELSE CHOOSE k \in 1..Len(seq) : seq[k] = a

ListStep ==
  LET op == last'.op
      args == last'.args
      old == Listed(heap, formatting_list)
      new == Listed(heap', formatting_list')
      fresh == DOMAIN heap' \ DOMAIN heap
      Same == /\ heap' = heap
              /\ formatting_list' = formatting_list
              /\ formatting_list_end' = formatting_list_end
  IN /\ WellFormedList(heap', formatting_list', formatting_list_end')
     /\ op = "formatting_list_append" =>
          IF args[2]
            THEN /\ Cardinality(fresh) = 1
                 /\ \A a \in fresh : /\ new = Append(old, a)
                                     /\ Triple(heap'[a]) = args[1]
                 /\ SameTriples(heap, heap')
            ELSE Same
     /\ op = "formatting_list_insert" =>
          IF args[4]
            THEN /\ Cardinality(fresh) = 1
                 /\ \A a \in fresh :
                      /\ new = InsertedAt(old, PlaceOf(old, args[1]), a)
                      /\ Triple(heap'[a]) = args[3]
                 /\ SameTriples(heap, heap')
            ELSE Same
     /\ op = "formatting_list_remove" =>
          /\ args[3]
          /\ new = Without(old, args[1])
          /\ DOMAIN heap' = DOMAIN heap \ {args[1]}
          /\ args[2] = Triple(heap[args[1]])
          /\ SameTriples(heap, heap')
     /\ op = "formatting_list_replace" =>
          /\ args[4]
          /\ new = old
          /\ args[3] = Triple(heap[args[1]])
          /\ heap' = [heap EXCEPT ![args[1]] =
                        [@ EXCEPT !.type = args[2][1], !.node = args[2][2],
                                  !.stack_index = args[2][3]]]
          /\ formatting_list_end' = formatting_list_end

(* C35: after any sequence of formatting_list_append, formatting_list_insert
   between neighbours (either missing at its end of the list),
   formatting_list_remove and formatting_list_replace the list is a well
   formed doubly linked list: the head has no prev, the tail has no next,
   e.next.prev = e, head and tail are NULL together and only when the list
   is empty; append and insert add one entry and keep the others in order,
   remove deletes the given entry alone, replace changes only that entry's
   (type, node, stack_index) and returns the old triple. *)
C35 ==
  [][WellFormedList(heap, formatting_list, formatting_list_end) /\ ListStep]_vars

\* An entry has been put between two entries of the list.
C35_Witness ==
  /\ last.op = "formatting_list_insert"
  /\ last.args[1] # NULL /\ last.args[2] # NULL
  /\ last.args[4]
  /\ Cardinality(DOMAIN heap) = MaxListEntries

\* An entry of a list of three has been removed.
C35_WitnessRemoved ==
  /\ last.op = "formatting_list_remove"
  /\ Cardinality(DOMAIN heap) = MaxListEntries - 1

(* ------------------ C36: the span of an adjusted name ------------------ *)

(* C36, as stated: adjust_foreign_attributes never makes a name longer and
   never moves it out of its bytes: the new length is a size_t that has not
   wrapped and is <= the old length, and the new offset plus the new length
   is the old offset plus the old length. *)
C36_Original ==
  [][AdjustStep =>
       LET old == last'.args[2]
           new == last'.args[3]
       IN \A i \in 1..Len(old) :
             /\ new[i].name.len >= 0
             /\ new[i].name.len <= old[i].name.len
             /\ new[i].name.off + new[i].name.len
                  = old[i].name.off + old[i].name.len]_vars

\* As coded: the span is kept for every name but xmlns, whose five bytes
\* lose six: the length wraps to the all-ones value and the offset passes
\* the end of the name.
SpanKeptButForXmlns ==
  [][AdjustStep =>
       LET bytes == last'.args[1]
           old == last'.args[2]
           new == last'.args[3]
       IN \A i \in 1..Len(old) :
             LET name == SubSeq(bytes, old[i].name.off + 1,
                                old[i].name.off + old[i].name.len)
             IN IF name = <<120, 109, 108, 110, 115>>
                  THEN /\ new[i].name.len = 0 - 1
                       /\ new[i].name.off = old[i].name.off + 6
                  ELSE /\ new[i].name.len >= 0
                       /\ new[i].name.len <= old[i].name.len
                       /\ new[i].name.off + new[i].name.len
                            = old[i].name.off + old[i].name.len]_vars

====
